---- MODULE Spec2Model ----
(***************************************************************************)
(* Model of the image converter: the conversion pipeline of                *)
(* image_converter.py (ImageConverter.convert_image and its helpers) over  *)
(* a small file system, and the batch worker / UI loop of main_nodnd.py    *)
(* (ImageConverterApp) that talk through conversion_queue.                 *)
(*                                                                         *)
(* A path is a record [parent, stem, suffix] (pathlib's Path.parent,       *)
(* Path.stem, Path.suffix); its file name is stem \o suffix.               *)
(***************************************************************************)
EXTENDS Naturals, Integers, Sequences, FiniteSets, TLC

VARIABLES
    fs,               \* the files that exist: path -> content
    dirs,             \* the directories that exist
    calls,            \* number of convert_image calls made so far
    last,             \* the last convert_image call: arguments and outcome
    img,              \* the last image operation: its arguments and result
    \* ConversionHistory (advanced_features.py)
    history,          \* self.history
    added,            \* every entry added since the history was last empty
    stats,            \* what the last call on the history returned
    \* ImageConverterApp (main_nodnd.py)
    file_list,        \* self.file_list
    output_format_var,  \* self.output_format (combo box text)
    output_folder_var,  \* self.output_folder (entry text)
    resize_option,    \* self.resize_option   (check box)
    resize_width,     \* self.resize_width    (entry text)
    resize_height,    \* self.resize_height   (entry text)
    quality_option,   \* self.quality_option  (check box)
    quality_value,    \* self.quality_value   (entry text)
    convert_btn,      \* state of self.convert_btn: "normal" or "disabled"
    progress_bar,     \* value shown by self.progress_bar
    progress_label,   \* text shown by self.progress_label
    dialog,           \* the message box shown last
    clear_box,        \* the confirmation box of clear_files is open
    adding,           \* the locals of an add_files call that has not returned
    conversion_queue, \* self.conversion_queue
    threads,          \* number of live conversion threads
    finishing,        \* those of them that have put their terminal message
    w,                \* the locals of convert_images and where it stands
    \* history of the current batch
    batch,            \* file list and settings when start_conversion ran
    log,              \* what the worker did: messages put, files converted
    handled,          \* the messages check_conversion_queue has handled
    actions           \* user actions made so far

chvars == <<history, added, stats>>
pvars == <<fs, dirs, calls, last, img, chvars>>
settingvars == <<output_format_var, output_folder_var, resize_option, resize_width,
                 resize_height, quality_option, quality_value>>
uivars == <<file_list, convert_btn, progress_bar, progress_label, dialog, clear_box,
            adding, conversion_queue>>
histvars == <<batch, log, handled, actions>>
appvars == <<settingvars, uivars, threads, finishing, w, histvars>>
vars == <<pvars, appvars>>

---------------------------------------------------------------------------
(* Bounds of the model *)

\* convert_image calls explored by SpecPipeline
MaxCalls == 3

\* user actions (pressing Start included) a run of Spec makes
MaxUserActions == 3

\* user actions (pressing Start included) a run of SpecFair makes
MaxLiveActions == 2

\* sides of the sizes and boxes of the grid SpecImage explores
MaxSide == 5

\* history entries added before the history is emptied again
MaxAdded == 102

\* failures of the environment in a batch: a directory that cannot be made,
\* an encoder write that fails, a read of a control that raises
MaxFaults == 1

\* failed conversions among the entries added before the history is emptied
MaxFailed == 1

---------------------------------------------------------------------------
(* Paths and the file system *)

P(parent, stem, suffix) == [parent |-> parent, stem |-> stem, suffix |-> suffix]

\* settings.get('output_folder') is None / the key is absent
None == "<None>"

\* resize_dimensions and quality are None: the tuple is empty (a quality q is
\* <<q>>, dimensions are <<width, height>>)
Absent == <<>>

\* str.lower() on the strings the model uses
lower(s) ==
    CASE s = "PNG"   -> "png"
      [] s = "JPG"   -> "jpg"
      [] s = "JPEG"  -> "jpeg"
      [] s = "XYZ"   -> "xyz"
      [] s = ".PNG"  -> ".png"
      [] s = ".JPG"  -> ".jpg"
      [] s = ".GIF"  -> ".gif"
      [] s = ".TXT"  -> ".txt"
      [] s = ".JPEG" -> ".jpeg"
      [] s = ".Tif"  -> ".tif"
      [] s = ".PPM"  -> ".ppm"
      [] s = ".SVG"  -> ".svg"
      [] OTHER       -> s

\* ImageConverter.SUPPORTED_INPUT_FORMATS
SUPPORTED_INPUT_FORMATS ==
    {".jpg", ".jpeg", ".png", ".gif", ".bmp", ".tiff", ".tif",
     ".webp", ".avif", ".ico", ".ppm", ".pgm", ".pbm"}

\* ImageConverter.SUPPORTED_OUTPUT_FORMATS
SUPPORTED_OUTPUT_FORMATS ==
    [png |-> "PNG", jpg |-> "JPEG", jpeg |-> "JPEG", webp |-> "WEBP",
     tiff |-> "TIFF", bmp |-> "BMP", gif |-> "GIF", ico |-> "ICO"]

\* os.path.exists / Path.exists
exists(fsys, path) == path \in DOMAIN fsys

\* Image.open succeeds on a file holding a complete image
Decodable(content) == content.kind = "image"

Image(gen)   == [kind |-> "image", gen |-> gen]
Corrupt(gen) == [kind |-> "corrupt", gen |-> gen]
Partial(gen) == [kind |-> "partial", gen |-> gen]

\* files of the initial file systems
in_a_png   == P("in", "a", ".png")
in_a_1_png == P("in", "a_1", ".png")
in_c_GIF   == P("in", "c", ".GIF")
in_b_txt   == P("in", "b", ".txt")
in_zz_png  == P("in", "zz", ".png")
in_d_jpg   == P("in", "d", ".jpg")
out_a_png  == P("out", "a", ".png")

\* a directory given as a path
in_dir == P("", "in", "")

\* the path names a directory that exists
IsDir(dset, path) == path.parent = "" /\ (path.stem \o path.suffix) \in dset

\* img.size of the image a file of the runs holds: d.jpg is a line of 5000
\* pixels, the others are 4 by 3 (the files the calls write are not read
\* back)
SizeOf(input_path) == IF input_path = in_d_jpg THEN <<5000, 1>> ELSE <<4, 3>>

---------------------------------------------------------------------------
(* Python floats: IEEE 754 binary64, round to nearest, ties to even *)

(***************************************************************************)
(* A positive float is [m, e]: m is its 53-bit significand, written as     *)
(* four limbs <<l3, l2, l1, l0>> in base 2^14 (l3 holds the top 11 bits,   *)
(* 2^10 <= l3 < 2^11), and e is the exponent of its leading bit, so that   *)
(* its value is (l3*2^42 + l2*2^28 + l1*2^14 + l0) * 2^(e - 52).           *)
(***************************************************************************)
LimbBase == 2^14

Float(m, e) == [m |-> m, e |-> e]

\* the e with 2^e <= a/b < 2^(e+1), for positive integers a and b
RECURSIVE FloorLog2(_, _)
FloorLog2(a, b) ==
    IF a >= 2 * b THEN FloorLog2(a, 2 * b) + 1
    ELSE IF a < b THEN FloorLog2(2 * a, b) - 1
    ELSE 0

\* 2 * x, for limbs x
Dbl(x) ==
    LET l0 == 2 * x[4]
        l1 == 2 * x[3] + l0 \div LimbBase
        l2 == 2 * x[2] + l1 \div LimbBase
        l3 == 2 * x[1] + l2 \div LimbBase
    IN  <<l3, l2 % LimbBase, l1 % LimbBase, l0 % LimbBase>>

\* 1, 0, -1 as x > y, x = y, x < y, for limbs x and y
Cmp(x, y) ==
    IF x[1] # y[1] THEN (IF x[1] > y[1] THEN 1 ELSE -1)
    ELSE IF x[2] # y[2] THEN (IF x[2] > y[2] THEN 1 ELSE -1)
    ELSE IF x[3] # y[3] THEN (IF x[3] > y[3] THEN 1 ELSE -1)
    ELSE IF x[4] # y[4] THEN (IF x[4] > y[4] THEN 1 ELSE -1)
    ELSE 0

\* x - y, for limbs x >= y
Sub(x, y) ==
    LET b0 == IF x[4] < y[4] THEN 1 ELSE 0
        l0 == x[4] - y[4] + b0 * LimbBase
        b1 == IF x[3] - b0 < y[3] THEN 1 ELSE 0
        l1 == x[3] - b0 - y[3] + b1 * LimbBase
        b2 == IF x[2] - b1 < y[2] THEN 1 ELSE 0
        l2 == x[2] - b1 - y[2] + b2 * LimbBase
    IN  <<x[1] - b2 - y[1], l2, l1, l0>>

\* round to nearest, ties to even: the significand m was cut off, the part
\* cut off being rest/whole of its last place (twice_rest = 2 * rest)
RoundsUp(m, twice_rest, whole) ==
    \/ Cmp(twice_rest, whole) > 0
    \/ Cmp(twice_rest, whole) = 0 /\ m[4] % 2 = 1

\* the float of significand m (+ 1 in the last place when rounded up)
Round(m, e, up) ==
    IF ~up THEN Float(m, e)
    ELSE LET l0 == m[4] + 1
             l1 == m[3] + l0 \div LimbBase
             l2 == m[2] + l1 \div LimbBase
             l3 == m[1] + l2 \div LimbBase
         IN  IF l3 = 2^11
             THEN Float(<<2^10, 0, 0, 0>>, e + 1)
             ELSE Float(<<l3, l2 % LimbBase, l1 % LimbBase, l0 % LimbBase>>, e)

\* a / b for positive ints a and b (true division, correctly rounded): long
\* division, one limb at a time
IntTrueDiv(a, b) ==
    LET e   == FloorLog2(a, b)
        num == IF e < 0 THEN a * 2^(0 - e) ELSE a
        den == IF e > 0 THEN b * 2^e ELSE b
        l3  == (num * 2^10) \div den
        r3  == (num * 2^10) % den
        l2  == (r3 * LimbBase) \div den
        r2  == (r3 * LimbBase) % den
        l1  == (r2 * LimbBase) \div den
        r1  == (r2 * LimbBase) % den
        l0  == (r1 * LimbBase) \div den
        r0  == (r1 * LimbBase) % den
        m   == <<l3, l2, l1, l0>>
    IN  Round(m, e, RoundsUp(m, <<0, 0, 0, 2 * r0>>, <<0, 0, 0, den>>))

\* c * f for a positive int c < 2^11 and a float f: the exact product, cut
\* to 53 bits and rounded
FloatMulInt(c, f) ==
    LET p0 == c * f.m[4]
        p1 == c * f.m[3] + p0 \div LimbBase
        p2 == c * f.m[2] + p1 \div LimbBase
        p3 == c * f.m[1] + p2 \div LimbBase
        d0 == p0 % LimbBase
        d1 == p1 % LimbBase
        d2 == p2 % LimbBase
        t  == FloorLog2(p3, 2^10)
        lo == 2^t
        hi == 2^(14 - t)
        m  == <<p3 \div lo,
                (p3 % lo) * hi + d2 \div lo,
                (d2 % lo) * hi + d1 \div lo,
                (d1 % lo) * hi + d0 \div lo>>
    IN  Round(m, f.e + t,
              RoundsUp(m, <<0, 0, 0, 2 * (d0 % lo)>>, <<0, 0, 0, lo>>))

\* one bit of a long division by d: the remainder is doubled and d taken
\* off it when it fits
DivStep(st, d) ==
    LET r2 == Dbl(st.r)
        q2 == Dbl(st.q)
    IN  IF Cmp(r2, d) >= 0
        THEN [r |-> Sub(r2, d), q |-> <<q2[1], q2[2], q2[3], q2[4] + 1>>]
        ELSE [r |-> r2, q |-> q2]

RECURSIVE DivBits(_, _, _)
DivBits(st, d, n) ==
    IF n = 0 THEN st
    ELSE CHOOSE out \in {DivBits(next, d, n - 1) : next \in {DivStep(st, d)}} :
            TRUE

\* c / f for a positive int c < 2^11 and a float f: 53 bits of the quotient
\* by long division, rounded on the remainder
IntDivFloat(c, f) ==
    LET lc    == FloorLog2(c, 1)
        n     == <<c * 2^(10 - lc), 0, 0, 0>>
        first == Cmp(n, f.m) >= 0
        r0    == IF first THEN Sub(n, f.m) ELSE Sub(Dbl(n), f.m)
        e     == IF first THEN lc - f.e ELSE lc - f.e - 1
        d     == DivBits([r |-> r0, q |-> <<0, 0, 0, 1>>], f.m, 52)
    IN  Round(d.q, e, RoundsUp(d.q, Dbl(d.r), f.m))

\* f > g
FloatGt(f, g) == f.e > g.e \/ (f.e = g.e /\ Cmp(f.m, g.m) > 0)

\* a truncation that lands one above
TruncUp(f) ==
    IF f.e < 0 THEN 1
    ELSE IF f.e <= 10 THEN f.m[1] \div 2^(10 - f.e) + 1
    ELSE f.m[1] * 2^(f.e - 10) + f.m[2] \div 2^(24 - f.e) + 1

\* int(f), for a float f < 2^25: the integer part of f
Trunc(f) ==
    IF f.e < 0 THEN 0
    ELSE IF f.e <= 10 THEN f.m[1] \div 2^(10 - f.e)
    ELSE f.m[1] * 2^(f.e - 10) + f.m[2] \div 2^(24 - f.e)

\* lines 155-169 of _resize_image: the size handed to img.resize, for a
\* target width above 0 and a target height other than 0 (a negative target
\* ratio is below every original ratio)
new_size(size, dimensions) ==
    LET target_width    == dimensions[1]
        target_height   == dimensions[2]
        original_width  == size[1]
        original_height == size[2]
        original_ratio  == IntTrueDiv(original_width, original_height)
    IN  IF target_height < 0
           \/ FloatGt(original_ratio, IntTrueDiv(target_width, target_height))
        THEN <<target_width, Trunc(IntDivFloat(target_width, original_ratio))>>
        ELSE <<Trunc(FloatMulInt(target_height, original_ratio)), target_height>>

\* _resize_image raises: line 160 divides by a target height of 0, and
\* img.resize (line 172) refuses a size with a side below 1.  A target width
\* of 0 or less always gives such a side: it is the new width, or the sign of
\* the new height.
resize_raises(size, dimensions) ==
    \/ dimensions[2] = 0
    \/ dimensions[1] <= 0
    \/ new_size(size, dimensions)[1] < 1
    \/ new_size(size, dimensions)[2] < 1

\* the sizes and the boxes of the runs, and the pairs of them on which
\* _resize_image raises, computed once
RunSizes == {<<5000, 1>>, <<4, 3>>}
RunBoxes == {<<1920, 1080>>, <<800, 1080>>, <<800, 600>>, <<1920, 0>>}
RaisingResizes ==
    { c \in RunSizes \X RunBoxes : resize_raises(c[1], c[2]) }

\* _resize_image raises on an image of this size and these dimensions
ResizeRaises(size, dimensions) ==
    IF size \in RunSizes /\ dimensions \in RunBoxes
    THEN <<size, dimensions>> \in RaisingResizes
    ELSE resize_raises(size, dimensions)

---------------------------------------------------------------------------
(* image_converter.py: the conversion pipeline *)

\* what the environment decides in one call: whether a directory that has to
\* be made can be made, and how the encoder's write ends ("ok"; "fail" with
\* nothing left behind; "partial" with an incomplete file left behind)
Envs == [mkdir_ok : BOOLEAN, save : {"ok", "fail", "partial"}]

NoPath == P("", "", "")

\* line 55: os.path.exists(input_path), true of a file and of a directory
InputExists(fsys, dset, input_path) ==
    exists(fsys, input_path) \/ IsDir(dset, input_path)

SupportedInputNoCheck(input_path) == TRUE

\* line 60: input_path.suffix.lower() in SUPPORTED_INPUT_FORMATS
SupportedInput(input_path) ==
    lower(input_path.suffix) \in SUPPORTED_INPUT_FORMATS

SupportedOutputNoCheck(output_format) == TRUE

\* line 72: output_format in SUPPORTED_OUTPUT_FORMATS
SupportedOutput(output_format) ==
    output_format \in DOMAIN SUPPORTED_OUTPUT_FORMATS

\* a while loop that starts its counter at 2
RECURSIVE FirstFreeFromTwo(_, _, _, _, _)
FirstFreeFromTwo(fsys, output_dir, base_name, extension, counter) ==
    LET c == IF counter < 2 THEN 2 ELSE counter
        output_path == P(output_dir, base_name \o "_" \o ToString(c), extension)
    IN  IF exists(fsys, output_path)
        THEN FirstFreeFromTwo(fsys, output_dir, base_name, extension, c + 1)
        ELSE output_path

\* the while loop of _get_output_path: the first counter, from `counter` on,
\* whose path <base_name>_<counter><extension> does not exist
RECURSIVE FirstFree(_, _, _, _, _)
FirstFree(fsys, output_dir, base_name, extension, counter) ==
    LET output_path == P(output_dir, base_name \o "_" \o ToString(counter), extension)
    IN  IF exists(fsys, output_path)
        THEN FirstFree(fsys, output_dir, base_name, extension, counter + 1)
        ELSE output_path

\* the directory _get_output_path writes into (lines 107-110): output_folder
\* when it is truthy, else the input's parent
OutputDir(input_path, output_folder) ==
    IF output_folder # None /\ output_folder # ""
    THEN output_folder ELSE input_path.parent

\* an output path computed with no regard for what exists
_get_output_path_no_conflict_check(fsys, input_path, output_format, output_folder) ==
    P(OutputDir(input_path, output_folder), input_path.stem, "." \o output_format)

\* ImageConverter._get_output_path, after the directory has been made
_get_output_path(fsys, input_path, output_format, output_folder) ==
    LET output_dir  == OutputDir(input_path, output_folder)
        base_name   == input_path.stem
        extension   == "." \o output_format
        output_path == P(output_dir, base_name, extension)
    IN  IF exists(fsys, output_path)
        THEN FirstFree(fsys, output_dir, base_name, extension, 1)
        ELSE output_path

\* a save that reports success whatever the encoder did
_save_image_always_true(fsys, output_path, env, gen) ==
    CASE env.save = "ok" ->
            [ok |-> TRUE, fs |-> (output_path :> Image(gen)) @@ fsys]
      [] env.save = "partial" ->
            [ok |-> TRUE, fs |-> (output_path :> Partial(gen)) @@ fsys]
      [] OTHER ->
            [ok |-> TRUE, fs |-> fsys]

\* ImageConverter._save_image: img.save opens output_path for writing
\* (creating or truncating it) and encodes into it
_save_image(fsys, output_path, env, gen) ==
    CASE env.save = "ok" ->
            [ok |-> TRUE,  fs |-> (output_path :> Image(gen)) @@ fsys]
      [] env.save = "partial" ->
            [ok |-> FALSE, fs |-> (output_path :> Partial(gen)) @@ fsys]
      [] OTHER ->
            [ok |-> FALSE, fs |-> fsys]

Ret(result, fsys, dset, steps, output_path) ==
    [result |-> result, fs |-> fsys, dirs |-> dset, steps |-> steps,
     output_path |-> output_path]

\* ImageConverter.convert_image.  steps lists the gates and stages the call
\* went through, in the order it went through them.  Image.open raises on a
\* directory and on a file that holds no image; an exception in a stage ends
\* the call at line 100.
convert_image(fsys, dset, input_path, settings, env, gen) ==
    IF ~InputExists(fsys, dset, input_path)
    THEN Ret(FALSE, fsys, dset, <<"exists">>, NoPath)
    ELSE IF ~SupportedInput(input_path)
    THEN Ret(FALSE, fsys, dset, <<"exists", "extension">>, NoPath)
    ELSE
    LET output_format == lower(settings.output_format)
        output_folder == settings.output_folder
    IN  IF ~SupportedOutput(output_format)
        THEN Ret(FALSE, fsys, dset, <<"exists", "extension", "format">>, NoPath)
        ELSE
        LET output_dir == OutputDir(input_path, output_folder)
            made       == {output_dir} \ dset
        IN  IF made # {} /\ ~env.mkdir_ok
            THEN Ret(FALSE, fsys, dset,
                     <<"exists", "extension", "format", "path">>, NoPath)
            ELSE
            LET dset2       == dset \cup made
                output_path == _get_output_path(fsys, input_path, output_format,
                                                output_folder)
            IN  IF ~exists(fsys, input_path) \/ ~Decodable(fsys[input_path])
                THEN Ret(FALSE, fsys, dset2,
                         <<"exists", "extension", "format", "path", "decode">>,
                         output_path)
                ELSE IF /\ settings.resize
                        /\ settings.resize_dimensions # Absent
                        /\ ResizeRaises(SizeOf(input_path),
                                        settings.resize_dimensions)
                THEN Ret(FALSE, fsys, dset2,
                         <<"exists", "extension", "format", "path", "decode",
                           "transparency", "resize">>,
                         output_path)
                ELSE
                LET saved == _save_image(fsys, output_path, env, gen)
                IN  Ret(saved.ok, saved.fs, dset2,
                        <<"exists", "extension", "format", "path", "decode",
                          "transparency", "resize", "rotate", "save">>,
                        output_path)

---------------------------------------------------------------------------
(* The files and arguments the runs use *)

BaseFiles ==
    (in_a_png :> Image(0)) @@ (in_c_GIF :> Corrupt(0)) @@
    (in_d_jpg :> Image(0)) @@ (in_b_txt :> Image(0))

\* the file systems a run starts from: the base files, with or without a file
\* that already carries a _1 suffix and a file already in the output folder
InitialFileSystems ==
    { BaseFiles,
      (in_a_1_png :> Image(0)) @@ (out_a_png :> Image(0)) @@ BaseFiles }

DirsOf(fsys) == { p.parent : p \in DOMAIN fsys }

\* arguments of the convert_image calls
InputPaths    == {in_a_png, in_c_GIF, in_b_txt, in_zz_png, in_dir}
OutputFormats == {"PNG", "jpg", "xyz"}
OutputFolders == {None, "", "out"}
Settings(output_format, output_folder) ==
    [output_format |-> output_format, output_folder |-> output_folder,
     resize |-> FALSE, resize_dimensions |-> Absent, quality |-> Absent]

\* resize and resize_dimensions: a box, and a box with an empty side
Resizes       == {<<TRUE, <<800, 600>>>>, <<TRUE, <<1920, 0>>>>}

\* the settings of the calls: every format and folder without resizing, and
\* PNG with resizing
CallSettings ==
    { Settings(output_format, output_folder) :
        output_format \in OutputFormats, output_folder \in OutputFolders }
    \cup
    { [Settings("PNG", output_folder) EXCEPT
         !.resize = resizing[1], !.resize_dimensions = resizing[2]] :
        output_folder \in {None, "out"}, resizing \in Resizes }

NoCall ==
    [input_path |-> NoPath, settings |-> Settings("", None),
     result |-> FALSE, steps |-> <<>>, output_path |-> NoPath]

\* no image operation made yet
NoImage == [op |-> "none"]

---------------------------------------------------------------------------
(* utils.py: FileHandler *)

\* FileHandler.IMAGE_EXTENSIONS
IMAGE_EXTENSIONS ==
    {".jpg", ".jpeg", ".png", ".gif", ".bmp", ".tiff", ".tif",
     ".webp", ".avif", ".ico", ".ppm", ".pgm", ".pbm"}

\* FileHandler.IMAGE_MIME_TYPES
IMAGE_MIME_TYPES ==
    {"image/jpeg", "image/jpg", "image/png", "image/gif", "image/bmp",
     "image/tiff", "image/webp", "image/avif", "image/x-icon"}

\* mimetypes.guess_type on the extensions the model uses, with the table of
\* Python 3.11 and the system's mime.types
guess_type(path) ==
    CASE lower(path.suffix) = ".png"  -> "image/png"
      [] lower(path.suffix) = ".jpg"  -> "image/jpeg"
      [] lower(path.suffix) = ".jpeg" -> "image/jpeg"
      [] lower(path.suffix) = ".gif"  -> "image/gif"
      [] lower(path.suffix) = ".bmp"  -> "image/bmp"
      [] lower(path.suffix) = ".tiff" -> "image/tiff"
      [] lower(path.suffix) = ".tif"  -> "image/tiff"
      [] lower(path.suffix) = ".webp" -> "image/webp"
      [] lower(path.suffix) = ".avif" -> "image/avif"
      [] lower(path.suffix) = ".ico"  -> "image/vnd.microsoft.icon"
      [] lower(path.suffix) = ".ppm"  -> "image/x-portable-pixmap"
      [] lower(path.suffix) = ".pgm"  -> "image/x-portable-graymap"
      [] lower(path.suffix) = ".pbm"  -> "image/x-portable-bitmap"
      [] lower(path.suffix) = ".svg"  -> "image/svg+xml"
      [] lower(path.suffix) = ".heic" -> "image/heic"
      [] lower(path.suffix) = ".pdf"  -> "application/pdf"
      [] lower(path.suffix) = ".txt"  -> "text/plain"
      [] OTHER -> None

\* a classification that takes every file for an image
is_any_file(path) == TRUE

\* a classification in which the MIME type has the last word
is_image_file_mime_decides(path, mime_type) ==
    /\ lower(path.suffix) \in IMAGE_EXTENSIONS
    /\ mime_type # None
    /\ mime_type \in IMAGE_MIME_TYPES

\* lines 42-53 of is_image_file, for the MIME type the lookup returned
is_image_file_mime(path, mime_type) ==
    LET file_ext == lower(path.suffix)
    IN  IF file_ext \notin IMAGE_EXTENSIONS THEN FALSE
        ELSE IF mime_type # None /\ mime_type \in IMAGE_MIME_TYPES THEN TRUE
        ELSE file_ext \in IMAGE_EXTENSIONS

\* FileHandler.is_image_file
is_image_file(path) == is_image_file_mime(path, guess_type(path))

---------------------------------------------------------------------------
(* advanced_features.py: ConversionHistory *)

\* line 317: the number of entries kept
HistoryCap == 100

\* lines 301-312: an entry, by the outcome of the conversion it records
Entry(success) == [success |-> success]

\* an add_conversion that keeps the oldest entries
add_conversion_keep_first(entries, entry) ==
    LET appended == Append(entries, entry)
    IN  IF Len(appended) > HistoryCap
        THEN SubSeq(appended, 1, HistoryCap)
        ELSE appended

\* lines 314-318 of add_conversion: self.history afterwards
add_conversion(entries, entry) ==
    LET appended == Append(entries, entry)
    IN  IF Len(appended) > HistoryCap
        THEN SubSeq(appended, Len(appended) - HistoryCap + 1, Len(appended))
        ELSE appended

IsSuccess(entry) == entry.success
IsFailure(entry) == ~entry.success

\* what a call returns: None, True, False or a dict; a dict is given by its
\* keys and by the three counts (the other values are sums over times and
\* sizes, which the entries of the model do not carry)
Returns(value) ==
    [returned |-> value, keys |-> {}, total_conversions |-> 0,
     successful_conversions |-> 0, failed_conversions |-> 0]
ReturnedNone == Returns("None")
EmptyDict    == Returns("dict")

\* lines 332-341: the keys of the dict get_statistics returns
StatisticsKeys ==
    {"total_conversions", "successful_conversions", "failed_conversions",
     "success_rate", "total_time", "average_time", "total_size_saved",
     "average_compression_ratio"}

\* get_statistics: the dict returned
get_statistics(entries) ==
    IF entries = <<>> THEN EmptyDict
    ELSE LET successful == SelectSeq(entries, IsSuccess)
             failed     == SelectSeq(entries, IsFailure)
         IN  [returned |-> "dict",
              keys |-> StatisticsKeys,
              total_conversions      |-> Len(entries),
              successful_conversions |-> Len(successful),
              failed_conversions     |-> Len(failed)]

\* the file export_history writes
Csv == [kind |-> "csv", gen |-> 0]

\* export_history: open(file_path, 'w') creates or truncates the file and the
\* rows are written; open raises when the directory is missing or the path
\* names a directory
export_history(fsys, dset, file_path) ==
    IF file_path.parent \in dset /\ ~IsDir(dset, file_path)
    THEN [ok |-> TRUE, fs |-> (file_path :> Csv) @@ fsys]
    ELSE [ok |-> FALSE, fs |-> fsys]

\* ConversionHistory.__init__
HistoryStart ==
    /\ history = <<>>
    /\ added = <<>>
    /\ stats = ReturnedNone

\* history.add_conversion(..., success, ...)
AddConversion ==
    /\ Len(added) < MaxAdded
    /\ \E success \in BOOLEAN :
          /\ success \/ Len(SelectSeq(added, IsFailure)) < MaxFailed
          /\ history' = add_conversion(history, Entry(success))
          /\ added' = Append(added, Entry(success))
    /\ stats' = ReturnedNone
    /\ UNCHANGED <<fs, dirs, calls, last, img, appvars>>

\* history.clear_history()
ClearHistory ==
    /\ history' = <<>>
    /\ added' = <<>>
    /\ stats' = ReturnedNone
    /\ UNCHANGED <<fs, dirs, calls, last, img, appvars>>

\* history.get_statistics()
GetStatistics ==
    /\ stats' = get_statistics(history)
    /\ UNCHANGED <<fs, dirs, calls, last, img, history, added, appvars>>

\* the paths a history is exported to: a new file, a file that exists, and a
\* file in a directory that does not exist
ExportPaths == {P("in", "history", ".csv"), in_a_png, P("reports", "history", ".csv")}

\* history.export_history(file_path)
ExportHistory ==
    /\ \E file_path \in ExportPaths :
          LET r == export_history(fs, dirs, file_path)
          IN  /\ fs' = r.fs
              /\ stats' = Returns(IF r.ok THEN "True" ELSE "False")
    /\ UNCHANGED <<dirs, calls, last, img, history, added, appvars>>

---------------------------------------------------------------------------
(* main_nodnd.py: ImageConverterApp *)

\* os.path.basename
basename(path) == path.stem \o path.suffix

\* str.strip() on the texts the model uses
strip(text) == IF text \in {"", " "} THEN "" ELSE text

\* int(text) on the texts the model uses: <<n>> for the number n, <<>> when
\* int raises ValueError
int(text) ==
    CASE text = "1920" -> <<1920>>
      [] text = "1080" -> <<1080>>
      [] text = "800"  -> <<800>>
      [] text = "600"  -> <<600>>
      [] text = "95"   -> <<95>>
      [] text = "150"  -> <<150>>
      [] text = "0"    -> <<0>>
      [] text = "-5"   -> <<-5>>
      [] text = "70000" -> <<70000>>
      [] OTHER -> <<>>

Min(a, b) == IF a < b THEN a ELSE b
Max(a, b) == IF a > b THEN a ELSE b

\* lines 726-733: resize_dimensions from the resize controls
ReadResizeDimensions(option, width_text, height_text) ==
    IF ~option THEN Absent
    ELSE LET width  == IF strip(width_text) # "" THEN int(width_text) ELSE <<1920>>
             height == IF strip(height_text) # "" THEN int(height_text) ELSE <<1080>>
         IN  IF width = <<>> \/ height = <<>>
             THEN <<1920, 1080>>
             ELSE <<width[1], height[1]>>

\* a reading of the quality field that does not clamp
ReadQualityUnclamped(option, text) ==
    IF ~option THEN Absent
    ELSE LET q == IF strip(text) # "" THEN int(text) ELSE <<95>>
         IN  IF q = <<>> THEN <<95>> ELSE q

\* lines 735-741: quality_value from the quality controls
ReadQuality(option, text) ==
    IF ~option THEN Absent
    ELSE LET q == IF strip(text) # "" THEN int(text) ELSE <<95>>
         IN  IF q = <<>> THEN <<95>> ELSE <<Max(1, Min(100, q[1]))>>

\* lines 743-749: the settings record, read from the controls as they are now
ReadSettings(resize_dimensions) ==
    [output_format     |-> lower(output_format_var),
     output_folder     |-> IF output_folder_var # "Same as input"
                           THEN output_folder_var ELSE None,
     resize            |-> resize_option,
     resize_dimensions |-> resize_dimensions,
     quality           |-> ReadQuality(quality_option, quality_value)]

\* the settings a file converted right now would get
CurrentSettings ==
    ReadSettings(ReadResizeDimensions(resize_option, resize_width, resize_height))

\* progress values are fractions <<numerator, denominator>> in lowest terms
RECURSIVE GCD(_, _)
GCD(a, b) == IF b = 0 THEN a ELSE GCD(b, a % b)
Ratio(n, d) == <<n \div GCD(n, d), d \div GCD(n, d)>>
Zero == <<0, 1>>
One  == <<1, 1>>

\* a loop failure reported as a finished batch
ErrorMsgAsComplete(text) == <<"complete", 0, <<>>>>
ProgressMsg(progress, status_text) == <<"progress", progress, status_text>>
\* a 'complete' message that leaves the failed files out
CompleteMsgNoFailures(successful, failed) == <<"complete", successful, <<>>>>
CompleteMsg(successful, failed)    == <<"complete", successful, failed>>
ErrorMsg(text)                     == <<"error", text>>

Converting(path) == <<"Converting", basename(path)>>
Summary(successful, total) == <<"Conversion complete", successful, total>>

PutEvent(msg) == [ev |-> "put", msg |-> msg]
\* convert_image returned success for path; fault: the environment failed it
ConvertEvent(path, settings, success, fault) ==
    [ev |-> "convert", file_path |-> path, settings |-> settings,
     success |-> success, fault |-> fault]
\* the per-file handler ran for path: convert_image was not called
ExceptEvent(path) ==
    [ev |-> "except", file_path |-> path, settings |-> Settings("", None),
     success |-> FALSE, fault |-> TRUE]

\* the failures of the environment in the current batch
Faults(events) == Len(SelectSeq(events, LAMBDA e : e.ev # "put" /\ e.fault))

\* the locals of convert_images; those of one turn of the loop (width,
\* resize_dimensions, quality_value and the entries of settings read so far)
\* are blank outside the turn
WIdle ==
    [pc |-> "idle", total_files |-> 0, i |-> 0, file_path |-> NoPath,
     width |-> Absent, resize_dimensions |-> Absent, quality_value |-> Absent,
     output_format |-> "", output_folder |-> None,
     successful_conversions |-> 0, failed_conversions |-> <<>>]

NoBatch == [files |-> <<>>, settings |-> Settings("", None)]
NoDialog == <<"none">>
Ready == <<"Ready to convert images">>

\* the locals of add_files: the files still to visit and the three counters;
\* outside a call they are blank
NoAdding ==
    [files |-> <<>>, added_count |-> 0, duplicate_count |-> 0, invalid_count |-> 0]

\* the main window takes no input while the confirmation box is open or a
\* handler is running
UserAction ==
    /\ ~clear_box
    /\ adding = NoAdding
    /\ actions < MaxUserActions
    /\ actions' = actions + 1

\* ---- the file list ----

\* one turn of the loop of add_files (lines 506-517) for file_path: the list
\* and the three counters afterwards
add_files_turn(acc, file_path) ==
    IF ~exists(fs, file_path) THEN acc
    ELSE IF ~is_image_file(file_path)
    THEN [acc EXCEPT !.invalid_count = @ + 1]
    ELSE IF \A k \in 1 .. Len(acc.list) : acc.list[k] # file_path
    THEN [acc EXCEPT !.list = Append(@, file_path), !.added_count = @ + 1]
    ELSE [acc EXCEPT !.duplicate_count = @ + 1]

\* lines 519-531 of add_files: the label or the message box after the loop
add_files_end(acc) ==
    /\ adding' = NoAdding
    /\ IF acc.added_count > 0
       THEN /\ progress_label' = <<"added", acc.added_count, Len(acc.list)>>
            /\ dialog' = dialog
       ELSE /\ progress_label' = progress_label
            /\ dialog' = IF acc.duplicate_count > 0
                         THEN <<"showinfo", "Duplicate Files", acc.duplicate_count>>
                         ELSE IF acc.invalid_count > 0
                         THEN <<"showwarning", "Invalid Files", acc.invalid_count>>
                         ELSE <<"showwarning", "No Files">>

\* add_files from the loop's next file on: one turn of the loop, and with it
\* the rest of the method when that was the last file.  The conversion thread
\* can run between two turns (os.path.isfile and is_image_file are system
\* calls), and then reads the list as the turns so far left it.
add_files_from(files, counters) ==
    LET acc == [list |-> file_list,
                added_count |-> counters.added_count,
                duplicate_count |-> counters.duplicate_count,
                invalid_count |-> counters.invalid_count]
    IN  /\ IF files = <<>>
           THEN /\ file_list' = file_list
                /\ add_files_end(acc)
           ELSE LET r == add_files_turn(acc, Head(files))
                IN  /\ file_list' = r.list
                    /\ IF Tail(files) = <<>>
                       THEN add_files_end(r)
                       ELSE /\ adding' = [files |-> Tail(files),
                                          added_count |-> r.added_count,
                                          duplicate_count |-> r.duplicate_count,
                                          invalid_count |-> r.invalid_count]
                            /\ UNCHANGED <<progress_label, dialog>>
        /\ UNCHANGED <<convert_btn, progress_bar, conversion_queue, clear_box>>

\* ImageConverterApp.add_files, from its first line on
add_files(files) == add_files_from(files, NoAdding)

\* ImageConverterApp.add_files, from the next turn of its loop on
add_files_resumed ==
    /\ adding # NoAdding
    /\ add_files_from(adding.files, adding)

\* list.remove(x): the list without the first occurrence of x
RECURSIVE Remove(_, _)
Remove(list, x) ==
    IF list = <<>> THEN <<>>
    ELSE IF Head(list) = x THEN Tail(list)
    ELSE <<Head(list)>> \o Remove(Tail(list), x)

InList(list, x) == \E k \in 1 .. Len(list) : list[k] = x

\* ImageConverterApp.remove_file, from the remove button of a listed file
remove_file(file_path) ==
    /\ InList(file_list, file_path)
    /\ file_list' = Remove(file_list, file_path)
    /\ IF Len(file_list') > 0
       THEN /\ progress_label' = <<"files ready", Len(file_list')>>
            /\ progress_bar' = progress_bar
       ELSE /\ progress_label' = Ready
            /\ progress_bar' = Zero
    /\ UNCHANGED <<convert_btn, dialog, conversion_queue, clear_box, adding>>

\* ImageConverterApp.clear_files, lines 619-627: with files in the list the
\* confirmation box opens; it runs the event loop until it is answered
clear_files ==
    /\ file_list # <<>>
    /\ dialog' = <<"askyesno", "Clear Files", Len(file_list)>>
    /\ clear_box' = TRUE
    /\ UNCHANGED <<file_list, convert_btn, progress_bar, progress_label,
                   conversion_queue, adding>>

\* ImageConverterApp.clear_files, lines 629-635: result is the answer
clear_files_answered(result) ==
    /\ clear_box
    /\ clear_box' = FALSE
    /\ IF result
       THEN /\ file_list' = <<>>
            /\ progress_label' = Ready
            /\ progress_bar' = Zero
       ELSE UNCHANGED <<file_list, progress_label, progress_bar>>
    /\ UNCHANGED <<convert_btn, dialog, conversion_queue, adding>>

\* what a user may pass to add_files
AddInputs ==
    { <<in_a_png>>, <<in_c_GIF>>, <<in_d_jpg>>, <<in_b_txt>>, <<in_zz_png>>,
      <<in_d_jpg, in_a_png>> }

AddFiles ==
    /\ UserAction
    /\ \E files \in AddInputs : add_files(files)
    /\ UNCHANGED <<pvars, settingvars, threads, finishing, w, batch, log, handled>>

RemoveFile ==
    /\ UserAction
    /\ \E k \in 1 .. Len(file_list) : remove_file(file_list[k])
    /\ UNCHANGED <<pvars, settingvars, threads, finishing, w, batch, log, handled>>

\* the UI thread goes on with the add_files call it is in
AddFilesResumed ==
    /\ add_files_resumed
    /\ UNCHANGED <<pvars, settingvars, threads, finishing, w, batch, log, handled, actions>>

\* the clear button
ClearFiles ==
    /\ UserAction
    /\ clear_files
    /\ UNCHANGED <<pvars, settingvars, threads, finishing, w, batch, log, handled>>

\* the user answers the confirmation box
AnswerClear ==
    /\ \E result \in BOOLEAN : clear_files_answered(result)
    /\ UNCHANGED <<pvars, settingvars, threads, finishing, w, batch, log, handled, actions>>

\* ---- the settings controls ----

FormatChoices == {"PNG", "JPEG"}
FolderChoices == {"Same as input", "out"}
WidthChoices  == {"1920", "800", ""}
HeightChoices == {"1080", "abc"}
QualityChoices == {"95", "150"}

SettingsRest ==
    UNCHANGED <<pvars, uivars, threads, finishing, w, batch, log, handled>>

\* the format combo box (bound to self.output_format)
SelectFormat ==
    /\ UserAction
    /\ \E v \in FormatChoices \ {output_format_var} : output_format_var' = v
    /\ UNCHANGED <<output_folder_var, resize_option, resize_width, resize_height,
                   quality_option, quality_value>>
    /\ SettingsRest

\* browse_output_folder, or typing into the folder entry
SetOutputFolder ==
    /\ UserAction
    /\ \E v \in FolderChoices \ {output_folder_var} : output_folder_var' = v
    /\ UNCHANGED <<output_format_var, resize_option, resize_width, resize_height,
                   quality_option, quality_value>>
    /\ SettingsRest

\* the resize check box (toggle_resize_options enables the two entries)
ToggleResize ==
    /\ UserAction
    /\ resize_option' = ~resize_option
    /\ UNCHANGED <<output_format_var, output_folder_var, resize_width, resize_height,
                   quality_option, quality_value>>
    /\ SettingsRest

\* the quality check box (toggle_quality_options enables the entry)
ToggleQuality ==
    /\ UserAction
    /\ quality_option' = ~quality_option
    /\ UNCHANGED <<output_format_var, output_folder_var, resize_option, resize_width,
                   resize_height, quality_value>>
    /\ SettingsRest

\* typing into the width or height entry, enabled while resize is ticked
EditResize ==
    /\ UserAction
    /\ resize_option
    /\ \/ /\ \E v \in WidthChoices \ {resize_width} : resize_width' = v
          /\ resize_height' = resize_height
       \/ /\ \E v \in HeightChoices \ {resize_height} : resize_height' = v
          /\ resize_width' = resize_width
    /\ UNCHANGED <<output_format_var, output_folder_var, resize_option,
                   quality_option, quality_value>>
    /\ SettingsRest

\* typing into the quality entry, enabled while custom quality is ticked
EditQuality ==
    /\ UserAction
    /\ quality_option
    /\ \E v \in QualityChoices \ {quality_value} : quality_value' = v
    /\ UNCHANGED <<output_format_var, output_folder_var, resize_option, resize_width,
                   resize_height, quality_option>>
    /\ SettingsRest

\* ---- the batch ----

\* a convert button that runs its command whatever its state
StartConversionAnyTime ==
    /\ UserAction
    /\ IF file_list = <<>>
       THEN /\ dialog' = <<"showwarning", "No Files">>
            /\ UNCHANGED <<convert_btn, threads, finishing, w, batch, log, handled>>
       ELSE /\ convert_btn' = "disabled"
            /\ threads' = threads + 1
            /\ finishing' = finishing
            /\ w' = [w EXCEPT !.pc = "begin"]
            /\ batch' = batch
            /\ log' = log
            /\ handled' = handled
            /\ dialog' = dialog
    /\ UNCHANGED <<pvars, settingvars, file_list, progress_bar, progress_label,
                   conversion_queue, clear_box, adding>>

\* ImageConverterApp.start_conversion, from the convert button (a disabled
\* button does not run its command)
StartConversion ==
    /\ UserAction
    /\ convert_btn = "normal"
    /\ IF file_list = <<>>
       THEN /\ dialog' = <<"showwarning", "No Files">>
            /\ UNCHANGED <<convert_btn, threads, finishing, w, batch, log, handled>>
       ELSE /\ convert_btn' = "disabled"
            /\ threads' = threads + 1
            /\ finishing' = finishing
            /\ w' = [WIdle EXCEPT !.pc = "begin"]
            /\ batch' = [files |-> file_list, settings |-> CurrentSettings]
            /\ log' = <<>>
            /\ handled' = <<>>
            /\ dialog' = dialog
    /\ UNCHANGED <<pvars, settingvars, file_list, progress_bar, progress_label,
                   conversion_queue, clear_box, adding>>

WorkerRest == UNCHANGED <<settingvars, file_list, convert_btn, progress_bar,
                          progress_label, dialog, clear_box, adding, batch, handled,
                          actions>>

\* convert_images, lines 715-717: total_files and the counters (w.i: the
\* iterator of line 719 starts at the head of the list)
W_Begin ==
    /\ w.pc = "begin"
    /\ w' = [w EXCEPT !.pc = "next", !.total_files = Len(file_list),
                      !.successful_conversions = 0, !.failed_conversions = <<>>,
                      !.i = 0]
    /\ UNCHANGED <<pvars, conversion_queue, threads, finishing, log>>
    /\ WorkerRest

\* the list iterator: is there an element at the next index of the list as it
\* is now
HasNext(list, index) == index < Len(list)

\* line 719, the for statement: the iterator takes the next element of the
\* list as it is now (w.i counts the elements taken, the local i of the turn
\* is one less); with the list exhausted the loop is left for line 764
W_Next ==
    /\ w.pc = "next"
    /\ w' = IF HasNext(file_list, w.i)
            THEN [w EXCEPT !.pc = "progress", !.i = @ + 1,
                           !.file_path = file_list[w.i + 1]]
            ELSE [w EXCEPT !.pc = "final"]
    /\ UNCHANGED <<pvars, conversion_queue, threads, finishing, log>>
    /\ WorkerRest

\* lines 721-722: progress = i / total_files and the progress message of the
\* file; dividing by total_files = 0 raises ZeroDivisionError, which leaves
\* the loop for the handler of the outer try (line 767)
W_Progress ==
    /\ w.pc = "progress"
    /\ IF w.total_files = 0
       THEN /\ w' = [w EXCEPT !.pc = "error"]
            /\ UNCHANGED <<conversion_queue, log>>
       ELSE LET msg == ProgressMsg(Ratio(w.i - 1, w.total_files),
                                   Converting(w.file_path))
            IN  /\ conversion_queue' = Append(conversion_queue, msg)
                /\ log' = Append(log, PutEvent(msg))
                /\ w' = [w EXCEPT !.pc = "resize"]
    /\ UNCHANGED <<pvars, threads, finishing>>
    /\ WorkerRest

\* The worker reads the controls one after the other (lines 727-747), each
\* read a step of its own, while the UI thread may change them.

\* line 727: if self.resize_option.get()
W_ReadResize ==
    /\ w.pc = "resize"
    /\ w' = [w EXCEPT !.pc = IF resize_option THEN "width_test" ELSE "quality"]
    /\ UNCHANGED <<pvars, conversion_queue, threads, finishing, log>>
    /\ WorkerRest

DefaultDimensions == <<1920, 1080>>

\* line 729: int(self.resize_width.get()) if self.resize_width.get().strip()
\* else 1920: the entry is read for the test, and again for int(); a
\* ValueError gives the default dimensions (lines 732-733)
W_ReadWidth ==
    /\ \/ /\ w.pc = "width_test"
          /\ w' = IF strip(resize_width) # ""
                  THEN [w EXCEPT !.pc = "width"]
                  ELSE [w EXCEPT !.pc = "height_test", !.width = <<1920>>]
       \/ /\ w.pc = "width"
          /\ w' = IF int(resize_width) = <<>>
                  THEN [w EXCEPT !.pc = "quality",
                                 !.resize_dimensions = DefaultDimensions]
                  ELSE [w EXCEPT !.pc = "height_test",
                                 !.width = int(resize_width)]
    /\ UNCHANGED <<pvars, conversion_queue, threads, finishing, log>>
    /\ WorkerRest

\* lines 730-733: the same for the height, and resize_dimensions
W_ReadHeight ==
    /\ \/ /\ w.pc = "height_test"
          /\ w' = IF strip(resize_height) # ""
                  THEN [w EXCEPT !.pc = "height"]
                  ELSE [w EXCEPT !.pc = "quality", !.width = Absent,
                                 !.resize_dimensions = <<w.width[1], 1080>>]
       \/ /\ w.pc = "height"
          /\ w' = IF int(resize_height) = <<>>
                  THEN [w EXCEPT !.pc = "quality", !.width = Absent,
                                 !.resize_dimensions = DefaultDimensions]
                  ELSE [w EXCEPT !.pc = "quality", !.width = Absent,
                                 !.resize_dimensions =
                                     <<w.width[1], int(resize_height)[1]>>]
    /\ UNCHANGED <<pvars, conversion_queue, threads, finishing, log>>
    /\ WorkerRest

\* lines 735-741: quality_value: the check box, the entry for the test, the
\* entry for int(), then the clamp; a ValueError gives 95
W_ReadQuality ==
    /\ \/ /\ w.pc = "quality"
          /\ w' = [w EXCEPT !.pc = IF quality_option THEN "quality_test"
                                   ELSE "format"]
       \/ /\ w.pc = "quality_test"
          /\ w' = IF strip(quality_value) # ""
                  THEN [w EXCEPT !.pc = "quality_value"]
                  ELSE [w EXCEPT !.pc = "format",
                                 !.quality_value = <<Max(1, Min(100, 95))>>]
       \/ /\ w.pc = "quality_value"
          /\ w' = IF int(quality_value) = <<>>
                  THEN [w EXCEPT !.pc = "format", !.quality_value = <<95>>]
                  ELSE [w EXCEPT !.pc = "format",
                                 !.quality_value =
                                     <<Max(1, Min(100, int(quality_value)[1]))>>]
    /\ UNCHANGED <<pvars, conversion_queue, threads, finishing, log>>
    /\ WorkerRest

\* lines 744-745: output_format, and output_folder: the entry is read for
\* the comparison with "Same as input", and again for the value
W_ReadSettings ==
    /\ \/ /\ w.pc = "format"
          /\ w' = [w EXCEPT !.pc = "folder_test",
                            !.output_format = lower(output_format_var)]
       \/ /\ w.pc = "folder_test"
          /\ w' = IF output_folder_var # "Same as input"
                  THEN [w EXCEPT !.pc = "folder"]
                  ELSE [w EXCEPT !.pc = "convert", !.output_folder = None]
       \/ /\ w.pc = "folder"
          /\ w' = [w EXCEPT !.pc = "convert", !.output_folder = output_folder_var]
    /\ UNCHANGED <<pvars, conversion_queue, threads, finishing, log>>
    /\ WorkerRest

\* what the environment does to a conversion the worker runs: nothing, or
\* the directory cannot be made, or the encoder's write fails
GoodEnv == [mkdir_ok |-> TRUE, save |-> "ok"]
WorkerEnvs ==
    {GoodEnv, [mkdir_ok |-> FALSE, save |-> "ok"], [mkdir_ok |-> TRUE, save |-> "fail"]}

\* the locals of a turn of the loop, blank again for the next turn
TurnDone(locals) ==
    [locals EXCEPT !.pc = "next", !.width = Absent, !.resize_dimensions = Absent,
                   !.quality_value = Absent, !.output_format = "",
                   !.output_folder = None]

\* lines 746-757: the resize check box is read for settings['resize'], the
\* file is converted and counted as a success or named as a failure
W_Convert ==
    /\ w.pc = "convert"
    /\ \E env \in WorkerEnvs :
          LET settings == [output_format     |-> w.output_format,
                           output_folder     |-> w.output_folder,
                           resize            |-> resize_option,
                           resize_dimensions |-> w.resize_dimensions,
                           quality           |-> w.quality_value]
              r == convert_image(fs, dirs, w.file_path, settings, env, calls + 1)
              good == convert_image(fs, dirs, w.file_path, settings, GoodEnv,
                                    calls + 1)
          IN  /\ r # good => Faults(log) < MaxFaults
              /\ fs' = r.fs
              /\ dirs' = r.dirs
              /\ calls' = calls + 1
              /\ last' = last
              /\ img' = img
              /\ UNCHANGED chvars
              /\ log' = Append(log, ConvertEvent(w.file_path, settings, r.result,
                                                 r # good))
              /\ w' = IF r.result
                      THEN [TurnDone(w) EXCEPT !.successful_conversions = @ + 1]
                      ELSE [TurnDone(w) EXCEPT !.failed_conversions =
                                                  Append(@, basename(w.file_path))]
    /\ UNCHANGED <<conversion_queue, threads, finishing>>
    /\ WorkerRest

\* the places of the turn where a control is read next (lines 727-746)
ReadingPlaces ==
    {"resize", "width_test", "width", "height_test", "height", "quality",
     "quality_test", "quality_value", "format", "folder_test", "folder",
     "convert"}

\* lines 759-761, the handler of the per-file try: an exception other than
\* the ValueError of int() (a read of a control that raises: the variable's
\* get() is a call into Tcl made from the conversion thread) names the file
\* as failed, and the loop goes on with the next file
W_Except ==
    /\ w.pc \in ReadingPlaces
    /\ Faults(log) < MaxFaults
    /\ w' = [TurnDone(w) EXCEPT !.failed_conversions =
                                    Append(@, basename(w.file_path))]
    /\ log' = Append(log, ExceptEvent(w.file_path))
    /\ UNCHANGED <<pvars, conversion_queue, threads, finishing>>
    /\ WorkerRest

\* line 764: the final progress message
W_Final ==
    /\ w.pc = "final"
    /\ LET msg == ProgressMsg(One, Summary(w.successful_conversions,
                                           w.total_files))
       IN  /\ conversion_queue' = Append(conversion_queue, msg)
           /\ log' = Append(log, PutEvent(msg))
    /\ w' = [w EXCEPT !.pc = "complete"]
    /\ UNCHANGED <<pvars, threads, finishing>>
    /\ WorkerRest

\* a thread that leaves convert_images without its terminal message
W_Complete_silent ==
    /\ w.pc = "complete"
    /\ w' = [w EXCEPT !.pc = "return"]
    /\ finishing' = finishing + 1
    /\ UNCHANGED <<pvars, conversion_queue, threads, log>>
    /\ WorkerRest

\* line 765: the "complete" message, the last statement of the try block
W_Complete ==
    /\ w.pc = "complete"
    /\ LET msg == CompleteMsg(w.successful_conversions, w.failed_conversions)
       IN  /\ conversion_queue' = Append(conversion_queue, msg)
           /\ log' = Append(log, PutEvent(msg))
    /\ w' = [w EXCEPT !.pc = "return"]
    /\ finishing' = finishing + 1
    /\ UNCHANGED <<pvars, threads>>
    /\ WorkerRest

\* lines 767-769: the handler of the outer try puts the "error" message
W_Error ==
    /\ w.pc = "error"
    /\ LET msg == ErrorMsg("division by zero")
       IN  /\ conversion_queue' = Append(conversion_queue, msg)
           /\ log' = Append(log, PutEvent(msg))
    /\ w' = [w EXCEPT !.pc = "return"]
    /\ finishing' = finishing + 1
    /\ UNCHANGED <<pvars, threads>>
    /\ WorkerRest

\* convert_images returns and its thread ends: the thread of the batch
\* started last (its locals are w), or a thread of an earlier batch that had
\* put its terminal message and was still alive when the next batch started
W_Return ==
    /\ finishing > 0
    /\ \/ /\ w.pc = "return"
          /\ w' = [w EXCEPT !.pc = "idle"]
       \/ /\ finishing > (IF w.pc = "return" THEN 1 ELSE 0)
          /\ w' = w
    /\ threads' = threads - 1
    /\ finishing' = finishing - 1
    /\ UNCHANGED <<pvars, conversion_queue, log>>
    /\ WorkerRest

\* ---- the UI loop ----

\* check_conversion_queue, lines 777-798: what one message does to the UI
Handle(msg, ui) ==
    LET seen == [ui EXCEPT !.handled = Append(@, msg)]
    IN  CASE msg[1] = "progress" ->
                [seen EXCEPT !.progress_bar = msg[2], !.progress_label = msg[3]]
          [] msg[1] = "complete" ->
                [seen EXCEPT
                   !.convert_btn = "normal",
                   !.dialog =
                      IF msg[3] # <<>>
                      THEN <<"showwarning", "Conversion Complete with Errors",
                             msg[2], Len(msg[3]), msg[3]>>
                      ELSE <<"showinfo", "Conversion Complete", msg[2]>>]
          [] msg[1] = "error" ->
                [seen EXCEPT
                   !.convert_btn = "normal",
                   !.dialog = <<"showerror", "Conversion Error", msg[2]>>]
          [] OTHER -> seen

\* a loop that takes the newest message first
RECURSIVE DrainNewestFirst(_, _)
DrainNewestFirst(queue, ui) ==
    IF queue = <<>> THEN ui
    ELSE DrainNewestFirst(SubSeq(queue, 1, Len(queue) - 1),
                          Handle(queue[Len(queue)], ui))

\* the while loop of check_conversion_queue: get_nowait until the queue is
\* empty, oldest message first
RECURSIVE Drain(_, _)
Drain(queue, ui) ==
    IF queue = <<>> THEN ui
    ELSE Drain(Tail(queue), Handle(Head(queue), ui))

\* ImageConverterApp.check_conversion_queue, run by the UI loop every 100 ms
\* (the loop runs no callback while add_files has not returned)
CheckConversionQueue ==
    /\ adding = NoAdding
    /\ LET ui == Drain(conversion_queue,
                       [progress_bar |-> progress_bar,
                        progress_label |-> progress_label,
                        convert_btn |-> convert_btn,
                        dialog |-> dialog,
                        handled |-> handled])
       IN  /\ progress_bar' = ui.progress_bar
           /\ progress_label' = ui.progress_label
           /\ convert_btn' = ui.convert_btn
           /\ dialog' = ui.dialog
           /\ handled' = ui.handled
    /\ conversion_queue' = <<>>
    /\ UNCHANGED <<pvars, settingvars, file_list, clear_box, adding, threads, finishing, w,
                   batch, log, actions>>

---------------------------------------------------------------------------
(* The application: the UI thread and the conversion thread *)

\* the file lists a run starts with (lists add_files can have built)
InitialFileLists == { <<>>, <<in_a_png, in_c_GIF>> }

AppStart ==
    /\ output_format_var = "PNG"
    /\ output_folder_var = "Same as input"
    /\ resize_option = FALSE
    /\ resize_width = "1920"
    /\ resize_height = "1080"
    /\ quality_option = FALSE
    /\ quality_value = "95"
    /\ convert_btn = "normal"
    /\ progress_bar = Zero
    /\ progress_label = Ready
    /\ dialog = NoDialog
    /\ clear_box = FALSE
    /\ adding = NoAdding
    /\ conversion_queue = <<>>
    /\ threads = 0
    /\ finishing = 0
    /\ w = WIdle
    /\ batch = NoBatch
    /\ log = <<>>
    /\ handled = <<>>
    /\ actions = 0

Init ==
    /\ fs = BaseFiles
    /\ dirs = DirsOf(fs)
    /\ calls = 0
    /\ last = NoCall
    /\ img = NoImage
    /\ HistoryStart
    /\ file_list \in InitialFileLists
    /\ AppStart

Next ==
    \/ AddFiles
    \/ AddFilesResumed
    \/ RemoveFile
    \/ ClearFiles
    \/ AnswerClear
    \/ SelectFormat
    \/ SetOutputFolder
    \/ ToggleResize
    \/ ToggleQuality
    \/ EditResize
    \/ EditQuality
    \/ StartConversion
    \/ W_Begin
    \/ W_Next
    \/ W_Progress
    \/ W_ReadResize
    \/ W_ReadWidth
    \/ W_ReadHeight
    \/ W_ReadQuality
    \/ W_ReadSettings
    \/ W_Convert
    \/ W_Except
    \/ W_Final
    \/ W_Complete
    \/ W_Error
    \/ W_Return
    \/ CheckConversionQueue

Spec == Init /\ [][Next]_vars

\* a step of the conversion thread (it is at one place of convert_images at
\* a time)
Worker ==
    \/ W_Begin
    \/ W_Next
    \/ W_Progress
    \/ W_ReadResize
    \/ W_ReadWidth
    \/ W_ReadHeight
    \/ W_ReadQuality
    \/ W_ReadSettings
    \/ W_Convert
    \/ W_Except
    \/ W_Final
    \/ W_Complete
    \/ W_Error
    \/ W_Return

\* the conversion thread keeps being scheduled while it has a step to take
\* (a single-file conversion returns), and the UI loop keeps running
\* check_conversion_queue, which reschedules itself every 100 ms (line 804)
Fairness ==
    /\ WF_vars(Worker)
    /\ WF_vars(CheckConversionQueue)
    /\ WF_vars(AddFilesResumed)

\* the runs checked for progress make at most MaxLiveActions user actions
NextFair == Next /\ actions' <= MaxLiveActions

SpecFair == Init /\ [][NextFair]_vars /\ Fairness

---------------------------------------------------------------------------
(* The pipeline on its own: any sequence of convert_image calls *)

PipelineInit ==
    /\ fs \in InitialFileSystems
    /\ dirs = DirsOf(fs)
    /\ calls = 0
    /\ last = NoCall
    /\ img = NoImage
    /\ HistoryStart
    /\ file_list = <<>>
    /\ AppStart

\* one call convert_image(input_path, settings)
ConvertImage ==
    /\ calls < MaxCalls
    /\ \E input_path \in InputPaths, settings \in CallSettings, env \in Envs :
          LET r == convert_image(fs, dirs, input_path, settings, env, calls + 1)
          IN  /\ fs' = r.fs
              /\ dirs' = r.dirs
              /\ calls' = calls + 1
              /\ last' = [input_path |-> input_path, settings |-> settings,
                          result |-> r.result, steps |-> r.steps,
                          output_path |-> r.output_path]
              /\ img' = img
              /\ UNCHANGED chvars
    /\ UNCHANGED appvars

PipelineNext == ConvertImage

SpecPipeline == PipelineInit /\ [][PipelineNext]_vars

---------------------------------------------------------------------------
(* image_converter.py: what a conversion does to the image it opened *)

(***************************************************************************)
(* An image is [mode, size, exif, rotation, transparency, composited]:     *)
(* mode and size are Image.mode and Image.size; exif is the orientation    *)
(* tag of info['exif'] (1: upright or no tag); rotation is the orientation *)
(* the pixel data is in (1: upright); transparency tells whether info has  *)
(* a 'transparency' key; composited tells whether the pixels were pasted   *)
(* on a white background.                                                  *)
(***************************************************************************)
Opened(mode, size, orientation, transparency) ==
    [mode |-> mode, size |-> size, exif |-> orientation,
     rotation |-> orientation, transparency |-> transparency,
     composited |-> FALSE]

\* line 133
transparent_formats == {"png", "gif", "webp", "ico"}

\* lines 138-143, 146-149: Image.new('RGB', img.size, 'white') with the
\* image pasted on it; the new image has an empty info
background(image) ==
    [mode |-> "RGB", size |-> image.size, exif |-> 1,
     rotation |-> image.rotation, transparency |-> FALSE,
     composited |-> TRUE]

\* a normalization that composites whatever the destination is
_handle_transparency_always(image, output_format) ==
    IF image.mode \in {"RGBA", "LA"} \/ (image.mode = "P" /\ image.transparency)
    THEN background(image)
    ELSE image

\* ImageConverter._handle_transparency
_handle_transparency(image, output_format) ==
    IF lower(output_format) \notin transparent_formats
    THEN IF image.mode \in {"RGBA", "LA"}
         THEN background(image)
         ELSE IF image.mode = "P" /\ image.transparency
         THEN background(image)
         ELSE image
    ELSE image

\* ImageConverter._resize_image: img.resize keeps the mode and copies info
_resize_image(image, dimensions) ==
    [image EXCEPT !.size = new_size(image.size, dimensions)]

\* ImageOps.exif_transpose: the transposition the orientation tag asks for
\* (tags 5 to 8 swap width and height), and the tag removed
exif_transpose(image) ==
    [image EXCEPT
       !.size     = IF image.exif \in 5 .. 8 THEN <<@[2], @[1]>> ELSE @,
       !.rotation = IF image.exif = image.rotation THEN 1 ELSE @,
       !.exif     = 1]

\* what img.save is called with: the format, the image (mode, size, pixel
\* orientation) and the keyword arguments; Absent and FALSE stand for a
\* keyword that is not passed
Encoding(format, image, quality, optimize, method, compression) ==
    [format |-> format, mode |-> image.mode, size |-> image.size,
     rotation |-> image.rotation, composited |-> image.composited,
     quality |-> quality, optimize |-> optimize, method |-> method,
     compression |-> compression]

NoEncoding ==
    Encoding("", Opened("", <<0, 0>>, 1, FALSE), Absent, FALSE, Absent, "")

\* quality if quality else 95
QualityOr95(quality) ==
    IF quality # Absent /\ quality[1] # 0 THEN quality ELSE <<95>>

\* an encoder set-up that passes the quality to every format
save_kwargs_quality_everywhere(image, output_format, quality) ==
    Encoding(SUPPORTED_OUTPUT_FORMATS[output_format], image,
             QualityOr95(quality), FALSE, Absent, "")

\* lines 179-201 of _save_image: the arguments of img.save
save_kwargs(image, output_format, quality) ==
    LET pil_format == SUPPORTED_OUTPUT_FORMATS[output_format]
    IN  CASE pil_format = "JPEG" ->
               Encoding(pil_format,
                        IF image.mode # "RGB"
                        THEN [image EXCEPT !.mode = "RGB"] ELSE image,
                        QualityOr95(quality), TRUE, Absent, "")
          [] pil_format = "PNG" ->
               Encoding(pil_format, image, Absent, TRUE, Absent, "")
          [] pil_format = "WEBP" ->
               Encoding(pil_format, image, QualityOr95(quality), FALSE, <<6>>, "")
          [] pil_format = "TIFF" ->
               Encoding(pil_format, image, Absent, FALSE, Absent, "lzw")
          [] OTHER ->
               Encoding(pil_format, image, Absent, FALSE, Absent, "")

\* lines 80-92 of convert_image, on the image Image.open returned: the
\* stages applied, in order, and what the encoder is called with.  img.resize
\* raises on an empty size, which ends the call (line 100).
processed_img(image, settings) ==
    LET output_format == lower(settings.output_format)
        transparent   == _handle_transparency(image, output_format)
        resizing      == settings.resize /\ settings.resize_dimensions # Absent
        resized       == IF resizing
                         THEN _resize_image(transparent, settings.resize_dimensions)
                         ELSE transparent
    IN  IF resizing /\ resize_raises(transparent.size, settings.resize_dimensions)
        THEN [result |-> FALSE, steps |-> <<"transparency", "resize">>,
              normalized |-> transparent, written |-> NoEncoding]
        ELSE [result |-> TRUE,
              steps |-> <<"transparency">>
                        \o (IF resizing THEN <<"resize">> ELSE <<>>)
                        \o <<"rotate", "save">>,
              normalized |-> transparent,
              written |-> save_kwargs(exif_transpose(resized), output_format,
                                      settings.quality)]

---------------------------------------------------------------------------
(* The image operations on their own: one _resize_image computation, or one
   pass of an opened image through the stages of convert_image *)

\* sizes and boxes beyond the grid: the sizes the specification names, and
\* sizes whose ratio is not a binary fraction
ExampleSizes == {<<1600, 1200>>, <<1600, 800>>, <<9, 7>>, <<15, 11>>}
ExampleBoxes == {<<800, 600>>, <<800, 800>>, <<9, 8>>, <<15, 11>>}

SourceSizes == ((1 .. MaxSide) \X (1 .. MaxSide)) \cup ExampleSizes
Boxes       == ((1 .. MaxSide) \X (1 .. MaxSide)) \cup ExampleBoxes

\* the images a conversion may open
Modes        == {"RGB", "RGBA", "LA", "P", "L"}
Orientations == {1, 3, 6}
OpenedSizes  == {<<4, 2>>, <<2, 3>>}
OpenedImages ==
    { Opened(mode, size, orientation, transparency) :
        mode \in Modes, size \in OpenedSizes, orientation \in Orientations,
        transparency \in BOOLEAN }

\* the settings of such a conversion
ImageFormats == DOMAIN SUPPORTED_OUTPUT_FORMATS \cup {"PNG", "JPEG"}
ImageBoxes   == {Absent, <<4, 2>>, <<2, 2>>}
Qualities    == {Absent, <<1>>, <<80>>}
ImageSettings ==
    [output_format : ImageFormats, output_folder : {None}, resize : BOOLEAN,
     resize_dimensions : ImageBoxes, quality : Qualities]

\* one call _resize_image(img, dimensions) on an image of a given size
ResizeImage ==
    /\ img = NoImage
    /\ \E size \in SourceSizes, dimensions \in Boxes :
          img' = [op |-> "resize", size |-> size, dimensions |-> dimensions,
                  new |-> new_size(size, dimensions)]
    /\ UNCHANGED <<fs, dirs, calls, last, chvars, appvars>>

\* one opened image taken through lines 80-92 of convert_image: the image
\* was opened from in/a.png, and line 92 (_save_image) writes the output
\* file when no stage has raised
ProcessImage ==
    /\ img = NoImage
    /\ \E image \in OpenedImages, settings \in ImageSettings :
          LET out == processed_img(image, settings)
              output_path == _get_output_path(fs, in_a_png,
                                              lower(settings.output_format),
                                              settings.output_folder)
          IN  /\ img' = [op |-> "process", image |-> image, settings |-> settings,
                         out |-> out]
              /\ fs' = IF out.result
                       THEN _save_image(fs, output_path, GoodEnv, calls + 1).fs
                       ELSE fs
    /\ UNCHANGED <<dirs, calls, last, chvars, appvars>>

ImageInit == PipelineInit /\ fs = BaseFiles

ImageNext == ResizeImage \/ ProcessImage

SpecImage == ImageInit /\ [][ImageNext]_vars

---------------------------------------------------------------------------
(* SpecInputs: what the program makes of its inputs: the texts of the
   settings fields, and the path of a file offered to the list *)

\* texts a user can type into the width, height and quality fields
InputTexts ==
    {"1920", "1080", "800", "600", "95", "150", "0", "-5", "70000",
     "", " ", "abc", "12.5"}

\* formats whose encoder set-up is looked at
EncoderFormats == {"jpg", "webp", "png"}

\* the image handed to the encoder
EncodedImage == Opened("RGB", <<4, 2>>, 1, FALSE)

\* lines 726-741 of convert_images on one state of the controls, and
\* lines 179-201 of _save_image on the quality read
ReadControls ==
    /\ img = NoImage
    /\ \E option \in BOOLEAN, width_text \in InputTexts,
          height_text \in InputTexts, q_option \in BOOLEAN,
          q_text \in InputTexts, output_format \in EncoderFormats :
          LET quality == ReadQuality(q_option, q_text)
          IN  img' = [op |-> "settings",
                      resize_option |-> option,
                      width_text |-> width_text,
                      height_text |-> height_text,
                      quality_option |-> q_option,
                      quality_text |-> q_text,
                      resize_dimensions |->
                          ReadResizeDimensions(option, width_text, height_text),
                      quality |-> quality,
                      encoder |-> save_kwargs(EncodedImage, output_format,
                                              quality)]
    /\ UNCHANGED <<fs, dirs, calls, last, chvars, appvars>>

\* suffixes of the files offered: the supported ones, some of them in upper
\* or mixed case, and others
OfferedSuffixes ==
    IMAGE_EXTENSIONS \cup
    {".PNG", ".JPG", ".JPEG", ".GIF", ".Tif", ".PPM", ".SVG", ".TXT",
     ".svg", ".pdf", ".txt", ".heic", ".raw", ""}

OfferedPaths == {P("in", "x", suffix) : suffix \in OfferedSuffixes}

\* what the MIME lookup may return, depending on the tables of the system
MimeTypes ==
    {None, "image/png", "image/jpeg", "image/x-icon",
     "image/vnd.microsoft.icon", "image/x-portable-pixmap", "image/svg+xml",
     "image/heic", "image/webp",
     "text/plain", "application/octet-stream"}

\* one file put to is_image_file and to the pipeline's extension check
ClassifyFile ==
    /\ img = NoImage
    /\ \E path \in OfferedPaths :
       \E mime_type \in MimeTypes \cup {guess_type(path)} :
          img' = [op |-> "classify",
                  path |-> path,
                  mime_type |-> mime_type,
                  is_image |-> is_image_file_mime(path, mime_type),
                  is_image_here |-> is_image_file(path),
                  supported |-> SupportedInput(path)]
    /\ UNCHANGED <<fs, dirs, calls, last, chvars, appvars>>

InputsNext == ReadControls \/ ClassifyFile

SpecInputs == ImageInit /\ [][InputsNext]_vars

---------------------------------------------------------------------------
(* SpecHistory: any sequence of calls on one ConversionHistory *)

HistoryNext == AddConversion \/ ClearHistory \/ GetStatistics \/ ExportHistory

SpecHistory == ImageInit /\ [][HistoryNext]_vars

---------------------------------------------------------------------------
(* Claims about the pipeline, checked under SpecPipeline *)

Called == calls' # calls

Files(fsys) == DOMAIN fsys

\* C1: a convert_image call never overwrites or modifies a file that existed
\* when the call started (the source included, also when the requested format
\* and folder are the source's own), and a successful call creates exactly
\* one new file: the set of existing files only grows.
C1_NeverOverwrites ==
    [][ /\ \A p \in Files(fs) : p \in Files(fs') /\ fs'[p] = fs[p]
        /\ (Called /\ last'.result) =>
              /\ Cardinality(Files(fs')) = Cardinality(Files(fs)) + 1
              /\ Files(fs') \ Files(fs) = {last'.output_path}
        /\ Cardinality(Files(fs')) <= Cardinality(Files(fs)) + 1 ]_vars

\* a successful conversion of in/a.png to PNG into its own folder: the source
\* is still the original and the output went to in/a_1.png
C1_Witness ==
    /\ last.result
    /\ last.input_path = in_a_png
    /\ lower(last.settings.output_format) = "png"
    /\ last.settings.output_folder = None
    /\ last.output_path.parent = "in"
    /\ last.output_path.suffix = ".png"
    /\ last.output_path # in_a_png
    /\ fs[in_a_png] = Image(0)
    /\ fs[last.output_path] = Image(calls)

Suffixed(dir, stem, k, ext) == P(dir, stem \o "_" \o ToString(k), ext)

\* C2: the output path is <dir>/<stem>.<format> (dir the output folder if
\* given, else the input's parent) when that path is free, and otherwise
\* <dir>/<stem>_k.<format> for the smallest k >= 1 whose path is free.
C2_OutputPath ==
    [][ (Called /\ last'.output_path # NoPath) =>
        LET c    == last'
            dir  == IF c.settings.output_folder \in {None, ""}
                    THEN c.input_path.parent ELSE c.settings.output_folder
            stem == c.input_path.stem
            ext  == "." \o lower(c.settings.output_format)
            base == P(dir, stem, ext)
        IN  IF base \notin Files(fs)
            THEN c.output_path = base
            ELSE \E k \in 1 .. Cardinality(Files(fs)) + 1 :
                    /\ c.output_path = Suffixed(dir, stem, k, ext)
                    /\ c.output_path \notin Files(fs)
                    /\ \A j \in 1 .. k - 1 : Suffixed(dir, stem, j, ext) \in Files(fs)
      ]_vars

\* in/a.png exists; converting it to PNG into its folder three times has
\* produced a_1.png, then a_2.png, then a_3.png
C2_Witness ==
    /\ calls = 3
    /\ \A k \in 1 .. 3 :
          /\ Suffixed("in", "a", k, ".png") \in Files(fs)
          /\ fs[Suffixed("in", "a", k, ".png")] = Image(k)
    /\ last.output_path = Suffixed("in", "a", 3, ".png")

\* C3: when the lower-cased output format is not a key of the output format
\* table, convert_image fails and nothing changes: no directory is made, no
\* file is written, and the source is not opened for decoding.
C3_UnsupportedOutputFormat ==
    [][ (Called /\ lower(last'.settings.output_format)
                      \notin DOMAIN SUPPORTED_OUTPUT_FORMATS) =>
          /\ ~last'.result
          /\ fs' = fs
          /\ dirs' = dirs
          /\ \A i \in 1 .. Len(last'.steps) :
                last'.steps[i] \notin {"path", "decode", "save"} ]_vars

\* a valid source asked to become "xyz" into a folder that does not exist:
\* the call stopped at the format gate and the folder still does not exist
C3_Witness ==
    /\ last.input_path = in_a_png
    /\ last.settings.output_format = "xyz"
    /\ last.settings.output_folder = "out"
    /\ last.steps = <<"exists", "extension", "format">>
    /\ ~last.result
    /\ "out" \notin dirs

GateOrder ==
    <<"exists", "extension", "format", "path", "decode",
      "transparency", "resize", "rotate", "save">>

IsPrefix(s, t) == Len(s) <= Len(t) /\ \A i \in 1 .. Len(s) : s[i] = t[i]

\* C4: the gates run in the order input-exists, extension, output format,
\* output path (with directory creation), decode; the first gate that fails
\* ends the call with failure and nothing later runs: a missing or
\* unsupported input makes no directory and reaches neither decode nor encode.
C4_GateOrder ==
    [][ Called =>
        LET c   == last'
            ex  == c.input_path \in Files(fs) \/ IsDir(dirs, c.input_path)
            ext == lower(c.input_path.suffix) \in SUPPORTED_INPUT_FORMATS
            fmt == lower(c.settings.output_format) \in DOMAIN SUPPORTED_OUTPUT_FORMATS
            unchanged == fs' = fs /\ dirs' = dirs /\ ~c.result
        IN  /\ IsPrefix(c.steps, GateOrder)
            /\ ~ex => c.steps = <<"exists">> /\ unchanged
            /\ (ex /\ ~ext) => c.steps = <<"exists", "extension">> /\ unchanged
            /\ (ex /\ ext /\ ~fmt) =>
                  c.steps = <<"exists", "extension", "format">> /\ unchanged
            /\ (ex /\ ext /\ fmt) => Len(c.steps) >= 4
            /\ (ex /\ ext /\ fmt /\ ~Decodable(fs[c.input_path])) =>
                  Len(c.steps) <= 5 /\ fs' = fs /\ ~c.result
            /\ dirs' # dirs => Len(c.steps) >= 4
            /\ fs' # fs => c.steps = GateOrder
            /\ c.result => c.steps = GateOrder
            /\ Len(c.steps) >= 5 =>
                  c.output_path.parent \in dirs' /\ c.output_path \notin Files(fs)
      ]_vars

\* an unsupported input (b.txt) and a missing input (zz.png) were each asked
\* to go into the folder "out", which still does not exist; here the last
\* call is the unsupported one, stopped at the extension gate
C4_Witness ==
    /\ last.input_path = in_b_txt
    /\ last.settings.output_folder = "out"
    /\ lower(last.settings.output_format) = "png"
    /\ last.steps = <<"exists", "extension">>
    /\ "out" \notin dirs
    /\ calls >= 2

---------------------------------------------------------------------------
(* Claims about the batch worker and the UI loop, checked under Spec *)

IsPut(e)     == e.ev = "put"
IsConvert(e) == e.ev = "convert"
\* a file's turn of the loop ended: convert_image returned, or the per-file
\* handler ran
IsAttempt(e) == e.ev \in {"convert", "except"}

\* the conversions of the current batch, in the order the worker made them
Converts == SelectSeq(log, IsConvert)
\* the files the worker has been through, in its order
Attempts == SelectSeq(log, IsAttempt)

\* the messages the worker has put for the current batch, in order
Sent == LET puts == SelectSeq(log, IsPut)
        IN  [k \in 1 .. Len(puts) |-> puts[k].msg]

IsTerminal(msg)     == msg[1] \in {"complete", "error"}
IsFileProgress(msg) == msg[1] = "progress" /\ msg[3][1] = "Converting"

Count(seq, x) == Cardinality({k \in 1 .. Len(seq) : seq[k] = x})

Attempted(path) == \E k \in 1 .. Len(Attempts) : Attempts[k].file_path = path
Failed(path) ==
    \E k \in 1 .. Len(Attempts) :
        Attempts[k].file_path = path /\ ~Attempts[k].success

\* the worker of the current batch has not put its terminal message yet
InFlight == w.pc \notin {"idle", "return"}

\* C5: in a batch of N files where the conversion of file k fails, the worker
\* still attempts every file k+1..N, and the 'complete' message carries a
\* failure list with exactly one entry for file k and a success count equal
\* to the number of files converted successfully.
C5_FailureDoesNotStopBatch ==
    \A p \in 1 .. Len(log) :
        (IsPut(log[p]) /\ log[p].msg[1] = "complete") =>
        LET msg == log[p].msg
            N   == Len(batch.files)
        IN  /\ msg[2] = Cardinality({k \in 1 .. Len(Converts) : Converts[k].success})
            /\ \A k \in 1 .. N :
                  Failed(batch.files[k]) =>
                     /\ \A j \in (k + 1) .. N : Attempted(batch.files[j])
                     /\ Count(msg[3], basename(batch.files[k])) = 1

\* the per-file progress messages put so far, in order
FileProgress == SelectSeq(Sent, IsFileProgress)

\* C6: for a batch of N files the worker puts the progress messages in the
\* order of the file list, one before each file's conversion begins (the
\* k-th of them names the k-th file of the batch and carries (k-1)/N, and the
\* k-th file gone through is that file), and then exactly one terminal
\* message, 'complete' or 'error', as the last message of the batch, after
\* the N-th file.
C6_MessageOrder ==
    LET N == Len(batch.files)
        terminal == {p \in 1 .. Len(Sent) : IsTerminal(Sent[p])}
    IN  /\ Len(FileProgress) <= N
        /\ \A k \in 1 .. Len(FileProgress) :
              /\ FileProgress[k][3] = Converting(batch.files[k])
              /\ FileProgress[k][2] = Ratio(k - 1, N)
        /\ Len(Attempts) <= Len(FileProgress)
        /\ \A k \in 1 .. Len(Attempts) : Attempts[k].file_path = batch.files[k]
        /\ Cardinality(terminal) <= 1
        /\ \A p \in terminal :
              p = Len(Sent) /\ Len(FileProgress) = N /\ Len(Attempts) = N

NewlyHandled == Len(handled') > Len(handled)
CompleteHandled ==
    NewlyHandled /\ handled'[Len(handled')][1] = "complete"

\* C7 as stated: the loop handles messages in the order they were put and
\* never blocks, and at the moment 'complete' is handled the progress bar
\* shows 1.0 and the status text is the batch summary.
C7_Stated ==
    [][ CompleteHandled =>
           /\ progress_bar' = One
           /\ progress_label' = Summary(handled'[Len(handled')][2], w.total_files)
      ]_vars

\* C7 as amended: the loop handles messages in the order they were put
\* (what it has handled, followed by what is queued, is what was put) and
\* never blocks (whenever the UI thread is free to run it, it can take its
\* step, queue empty or not, and leaves the queue empty); the message it
\* handles just before 'complete' is the batch's final progress message
\* (1.0, batch summary); a run of the loop leaves the bar and the status text
\* as the last progress message it handled says; and between two runs only
\* add_files, remove_file and clear_files change them.  So when 'complete'
\* is handled the bar shows 1.0 and the status text is the summary, unless
\* one of these three ran after the final progress message was handled and
\* before 'complete' was.
C7_Fifo ==
    /\ handled \o conversion_queue = Sent
    /\ adding = NoAdding => ENABLED CheckConversionQueue

\* the progress messages among those a step of the loop has handled
NewProgress ==
    SelectSeq(SubSeq(handled', Len(handled) + 1, Len(handled')),
              LAMBDA msg : msg[1] = "progress")

C7_FinalProgressFirst ==
    [][ CompleteHandled =>
        LET n == Len(handled')
            summary == Summary(handled'[n][2], w.total_files)
        IN  /\ n >= 2
            /\ handled'[n - 1] = ProgressMsg(One, summary)
            /\ conversion_queue' = <<>>
      ]_vars

C7_RunShowsLastProgress ==
    [][ NewlyHandled =>
        IF NewProgress = <<>>
        THEN progress_bar' = progress_bar /\ progress_label' = progress_label
        ELSE /\ progress_bar' = NewProgress[Len(NewProgress)][2]
             /\ progress_label' = NewProgress[Len(NewProgress)][3]
      ]_vars

\* a step of add_files, remove_file or clear_files
ListStep == AddFiles \/ AddFilesResumed \/ RemoveFile \/ ClearFiles \/ AnswerClear

C7_KeptBetweenRuns ==
    [][ (~NewlyHandled /\ ~ListStep) =>
           progress_bar' = progress_bar /\ progress_label' = progress_label
      ]_vars

\* the final progress message was the last message handled and no step of
\* add_files, remove_file or clear_files has been taken since
FinalShown ==
    /\ handled # <<>>
    /\ handled[Len(handled)][1] = "progress"
    /\ handled[Len(handled)][2] = One
    /\ handled[Len(handled)][3][1] = "Conversion complete"

C7_ShownAtComplete ==
    [][ (CompleteHandled /\ (Len(handled') > Len(handled) + 1
                               \/ (FinalShown /\ progress_bar = One
                                    /\ progress_label = handled[Len(handled)][3]))) =>
           /\ progress_bar' = One
           /\ progress_label' =
                 Summary(handled'[Len(handled')][2], w.total_files)
      ]_vars

C7_Amended ==
    /\ []C7_Fifo
    /\ C7_FinalProgressFirst
    /\ C7_RunShowsLastProgress
    /\ C7_KeptBetweenRuns
    /\ C7_ShownAtComplete

\* the five messages of a batch of three files have been handled, 'complete'
\* last and the final progress message right before it
C7_Witness ==
    /\ Len(handled) = 5
    /\ handled[5][1] = "complete"
    /\ handled[4] = ProgressMsg(One, Summary(handled[5][2], 3))
    /\ convert_btn = "normal"
    /\ conversion_queue = <<>>

\* C8: while a batch is in flight, the file list the worker iterates is not
\* mutated by add_files, remove_file or clear_files.
C8_ListNotMutated ==
    [][ InFlight => file_list' = file_list ]_vars

\* C9: every file of a batch is converted with the settings in effect when
\* the batch started.
C9_SettingsSnapshot ==
    \A k \in 1 .. Len(Converts) : Converts[k].settings = batch.settings

\* C10: the worker attempts every file that was in the list at batch start
\* exactly once, in list order, before the terminal message; in 'complete'
\* the success count plus the number of failed entries is the number of files
\* at batch start.
C10_EveryFileOnce ==
    \A p \in 1 .. Len(log) :
        (IsPut(log[p]) /\ IsTerminal(log[p].msg)) =>
            /\ [k \in 1 .. Len(Converts) |-> Converts[k].file_path] = batch.files
            /\ log[p].msg[1] = "complete" =>
                  log[p].msg[2] + Len(log[p].msg[3]) = Len(batch.files)

TerminalHandled ==
    NewlyHandled /\ IsTerminal(handled'[Len(handled')])

\* C11 as stated: at most one conversion worker exists at any time, hence at
\* most one file is being converted at any time: the convert button is
\* disabled from the moment a worker is spawned until a terminal message is
\* handled, it is re-enabled only by the handling of a terminal message, and
\* no user action starts a worker while one is still converting.
C11_Stated ==
    /\ threads <= 1
    /\ InFlight => convert_btn = "disabled"

\* the live threads that have not put their terminal message yet
Working == threads - finishing

\* C11 as amended: at most one conversion worker that has not yet put its
\* terminal message exists at any time, hence at most one file is being
\* converted at any time; a worker that has put its terminal message may
\* still be alive, on its way out of convert_images, when the next one is
\* started.  The convert button is disabled from the moment a worker is
\* spawned until a terminal message is handled, it is re-enabled only by the
\* handling of a terminal message, and no user action starts a worker while
\* one has not put its terminal message.
C11_AtMostOne ==
    /\ Working <= 1
    /\ (Working = 1) = InFlight
    /\ InFlight => convert_btn = "disabled"

C11_ButtonProtocol ==
    [][ /\ threads' > threads =>
              /\ Working = 0 /\ ~InFlight
              /\ convert_btn = "normal" /\ convert_btn' = "disabled"
        /\ (convert_btn = "disabled" /\ convert_btn' = "normal") => TerminalHandled
      ]_vars

C11_Amended == []C11_AtMostOne /\ C11_ButtonProtocol

\* a second batch is running: the first one went through its two files,
\* its terminal message was handled and the button was pressed again while
\* its thread was still alive
C11_Witness ==
    /\ threads = 2 /\ finishing = 1 /\ InFlight
    /\ convert_btn = "disabled"
    /\ calls >= 2
    /\ Len(Converts) < calls

\* the loop itself (outside the per-file try block) fails: its iterator has
\* given a file and i / total_files divides by zero
LoopFails ==
    /\ w.pc = "progress"
    /\ w.total_files = 0
    /\ w' # w

\* the worker is in the handler of the outer try and takes its step
HandlerRuns ==
    /\ w.pc = "error"
    /\ w' # w

IsErrorPut(e)    == IsPut(e) /\ e.msg[1] = "error"
IsCompletePut(e) == IsPut(e) /\ e.msg[1] = "complete"

\* C12: a failure in the worker loop itself, outside the per-file try block,
\* makes the worker put exactly one 'error' message, no 'complete' message,
\* and convert no further file of the batch: the failure takes the worker to
\* the handler with nothing put or converted, the handler's step is the put
\* of 'error', and an 'error' message is the last thing the worker of the
\* batch does.
C12_ErrorEndsBatch ==
    /\ \A p \in 1 .. Len(log) :
          IsErrorPut(log[p]) =>
            /\ p = Len(log)
            /\ ~InFlight
            /\ \A q \in 1 .. Len(log) : ~IsCompletePut(log[q])
            /\ \A q \in 1 .. Len(log) : IsErrorPut(log[q]) => q = p
    /\ w.pc = "error" => \A q \in 1 .. Len(log) : ~(IsPut(log[q]) /\ IsTerminal(log[q].msg))

C12_FailureToHandler ==
    [][ LoopFails =>
           /\ w'.pc = "error"
           /\ log' = log
           /\ conversion_queue' = conversion_queue
           /\ calls' = calls /\ fs' = fs
      ]_vars

C12_HandlerPutsError ==
    [][ HandlerRuns =>
           /\ Len(log') = Len(log) + 1
           /\ SubSeq(log', 1, Len(log)) = log
           /\ IsErrorPut(log'[Len(log')])
           /\ conversion_queue' = Append(conversion_queue, log'[Len(log')].msg)
           /\ calls' = calls /\ fs' = fs
           /\ w'.pc = "return"
      ]_vars

C12_LoopFailure ==
    /\ []C12_ErrorEndsBatch
    /\ C12_FailureToHandler
    /\ C12_HandlerPutsError

\* the loop failed on its first turn (the list was emptied before the worker
\* counted it and a file was added before the first turn): the 'error'
\* message is the only message of the batch and its dialog has been shown
C12_Witness ==
    /\ batch # NoBatch /\ ~InFlight
    /\ Converts = <<>>
    /\ Len(handled) = 1 /\ handled[1][1] = "error"
    /\ handled = Sent
    /\ dialog[1] = "showerror"
    /\ convert_btn = "normal"

\* the files a terminal message reports as failed
Reported(msg) == IF msg[1] = "complete" THEN msg[3] ELSE <<>>

FailedNames ==
    { basename(Attempts[k].file_path) :
         k \in {j \in 1 .. Len(Attempts) : ~Attempts[j].success} }

\* C13: no per-file failure is dropped: every file whose conversion failed is
\* named in the report of the batch's terminal message, 'complete' or
\* 'error', and in the dialog shown when that message is handled.
C13_TerminalNamesFailures ==
    \A p \in 1 .. Len(log) :
        (IsPut(log[p]) /\ IsTerminal(log[p].msg)) =>
            \A name \in FailedNames : InList(Reported(log[p].msg), name)

C13_DialogNamesFailures ==
    [][ (TerminalHandled /\ FailedNames # {}) =>
           /\ dialog'[1] = "showwarning"
           /\ dialog'[2] = "Conversion Complete with Errors"
           /\ \A name \in FailedNames : InList(dialog'[5], name)
           /\ dialog'[4] = Len(dialog'[5])
      ]_vars

C13_NoFailureDropped == []C13_TerminalNamesFailures /\ C13_DialogNamesFailures

\* a batch in which c.GIF failed has ended and its report is on screen
C13_Witness ==
    /\ ~InFlight
    /\ FailedNames = {basename(in_c_GIF)}
    /\ handled # <<>>
    /\ handled[Len(handled)][1] = "complete"
    /\ dialog = <<"showwarning", "Conversion Complete with Errors",
                  handled[Len(handled)][2], 1, <<basename(in_c_GIF)>> >>

TerminalSent == Sent # <<>> /\ IsTerminal(Sent[Len(Sent)])

\* C14: every started batch eventually ends: with each conversion returning
\* and the worker and the UI loop scheduled fairly, a terminal message is
\* eventually put and eventually handled, after which the convert button is
\* enabled again; the button never stays disabled forever.
C14_BatchEnds ==
    /\ InFlight ~> (~InFlight /\ TerminalSent)
    /\ (TerminalSent /\ convert_btn = "disabled") ~>
           (handled = Sent /\ convert_btn = "normal")
    /\ (convert_btn = "disabled") ~> (convert_btn = "normal")

\* a batch that was started has ended: its terminal message was put and
\* handled, its thread has ended and the button is enabled again
C14_Witness ==
    /\ batch # NoBatch
    /\ TerminalSent
    /\ handled = Sent
    /\ threads = 0
    /\ convert_btn = "normal"

---------------------------------------------------------------------------
(* Claims about the image operations, checked under SpecImage *)

Resized   == img.op = "resize"
Processed == img.op = "process"

\* n is an integer nearest to num / den
Nearest(n, num, den) ==
    /\ 2 * n * den - 2 * num <= den
    /\ 2 * num - 2 * n * den <= den

\* C15: for every source size (w, h) and target box (tw, th) with positive
\* components, _resize_image produces new_width = round(w * s) and
\* new_height = round(h * s) with s = min(tw / w, th / h).
C15_RoundToNearest ==
    Resized =>
        LET width         == img.size[1]
            height        == img.size[2]
            target_width  == img.dimensions[1]
            target_height == img.dimensions[2]
        IN  IF target_width * height <= target_height * width
            THEN /\ img.new[1] = target_width
                 /\ Nearest(img.new[2], height * target_width, width)
            ELSE /\ Nearest(img.new[1], width * target_height, height)
                 /\ img.new[2] = target_height

\* C16: for every source size and target box with positive components, the
\* size _resize_image produces is within the box on both axes and equal to
\* the box on at least one axis, upscaling or downscaling.
C16_FitsBox ==
    Resized =>
        /\ img.new[1] <= img.dimensions[1]
        /\ img.new[2] <= img.dimensions[2]
        /\ img.new[1] = img.dimensions[1] \/ img.new[2] = img.dimensions[2]

\* a 9x7 image was scaled up into a 15x11 box: the height is the box's
\* and the width is below the box's
C16_Witness ==
    /\ Resized
    /\ img.size = <<9, 7>>
    /\ img.dimensions = <<15, 11>>
    /\ img.new[2] = 11
    /\ img.new[1] < 15
    /\ img.new[1] > 9

\* C17: when the source's aspect ratio equals the box's, _resize_image
\* yields exactly the box (1600x1200 into 800x600 gives 800x600); when the
\* source is relatively wider than the box and the scaled height is an
\* integer, it yields the box's width and that height (1600x800 into
\* 800x800 gives 800x400).
C17_ExactCases ==
    Resized =>
        LET width         == img.size[1]
            height        == img.size[2]
            target_width  == img.dimensions[1]
            target_height == img.dimensions[2]
        IN  /\ width * target_height = height * target_width =>
                  img.new = img.dimensions
            /\ ( /\ width * target_height > height * target_width
                 /\ (target_width * height) % width = 0 ) =>
                  img.new = <<target_width, (target_width * height) \div width>>

RotateBeforeResize(steps) ==
    \A i, j \in 1 .. Len(steps) :
        (steps[i] = "rotate" /\ steps[j] = "resize") => i < j

\* C18: within one conversion the steps run in the order transparency
\* normalization, orientation correction, optional resize, encode; the
\* orientation is corrected before the resize, so that the written image
\* fits inside the requested box even when the orientation tag swaps width
\* and height.
C18_OrientationBeforeResize ==
    (Processed /\ img.out.result) =>
        /\ img.out.steps[1] = "transparency"
        /\ img.out.steps[Len(img.out.steps)] = "save"
        /\ RotateBeforeResize(img.out.steps)
        /\ (img.settings.resize /\ img.settings.resize_dimensions # Absent) =>
              /\ img.out.written.size[1] <= img.settings.resize_dimensions[1]
              /\ img.out.written.size[2] <= img.settings.resize_dimensions[2]

CarriesTransparency(image) ==
    \/ image.mode \in {"RGBA", "LA"}
    \/ image.mode = "P" /\ image.transparency

\* C19: _handle_transparency returns an RGB buffer composited on white
\* exactly when the destination format does not support transparency and
\* the source mode is RGBA, grayscale+alpha, or palette with a transparency
\* index; in every other case it returns its input unchanged, so that an
\* RGBA source converted to PNG keeps its alpha channel.
C19_Transparency ==
    Processed =>
        LET image  == img.image
            format == lower(img.settings.output_format)
            normal == img.out.normalized
        IN  /\ IF format \notin {"png", "gif", "webp", "ico"}
                  /\ CarriesTransparency(image)
               THEN /\ normal.mode = "RGB"
                    /\ normal.composited
                    /\ normal.size = image.size
               ELSE normal = image
            /\ (image.mode = "RGBA" /\ format = "png" /\ img.out.result) =>
                  /\ img.out.written.mode = "RGBA"
                  /\ ~img.out.written.composited

\* a palette image with a transparency index, converted to BMP, was
\* composited into an RGB buffer
C19_Witness ==
    /\ Processed
    /\ img.image.mode = "P" /\ img.image.transparency
    /\ img.settings.output_format = "bmp"
    /\ img.out.normalized.mode = "RGB"
    /\ img.out.normalized.composited

\* C20: the encoder parameters follow the per-format rules for every source
\* mode and every quality setting: JPEG gets an RGB buffer (never one with
\* alpha), the given quality or 95 when omitted, and optimize; PNG gets
\* optimize and no quality; WEBP gets the given quality or 95 and method 6;
\* TIFF gets LZW compression; BMP, GIF and ICO get no extra parameter.
C20_EncoderParameters ==
    (Processed /\ img.out.result) =>
        LET written == img.out.written
            quality == IF img.settings.quality = Absent
                       THEN <<95>> ELSE img.settings.quality
            Params(q, optimize, method, compression) ==
                /\ written.quality = q
                /\ written.optimize = optimize
                /\ written.method = method
                /\ written.compression = compression
        IN  /\ written.format =
                  SUPPORTED_OUTPUT_FORMATS[lower(img.settings.output_format)]
            /\ CASE written.format = "JPEG" ->
                      /\ written.mode = "RGB"
                      /\ Params(quality, TRUE, Absent, "")
                 [] written.format = "PNG" ->
                      Params(Absent, TRUE, Absent, "")
                 [] written.format = "WEBP" ->
                      Params(quality, FALSE, <<6>>, "")
                 [] written.format = "TIFF" ->
                      Params(Absent, FALSE, Absent, "lzw")
                 [] written.format \in {"BMP", "GIF", "ICO"} ->
                      Params(Absent, FALSE, Absent, "")
                 [] OTHER -> FALSE

\* an RGBA image was converted to JPEG with no quality given: the encoder
\* got a composited RGB buffer, quality 95 and optimize
C20_Witness ==
    /\ Processed /\ img.out.result
    /\ img.image.mode = "RGBA"
    /\ img.settings.output_format = "jpg"
    /\ img.settings.quality = Absent
    /\ img.out.written.format = "JPEG"
    /\ img.out.written.mode = "RGB"
    /\ img.out.written.composited
    /\ img.out.written.quality = <<95>>

---------------------------------------------------------------------------
(* Further claims about the pipeline, checked under SpecPipeline *)

\* C22: convert_image never propagates an exception: whatever the input path
\* and the settings, and whether directory creation, decoding or encoding
\* fails, it returns a boolean, and it returns true only when the
\* encode-and-write step completed without error.
C22_ReturnsBoolean ==
    [][ Called =>
          /\ last'.result \in BOOLEAN
          /\ last'.result =>
                /\ last'.steps = GateOrder
                /\ last'.output_path \in Files(fs')
                /\ fs'[last'.output_path] = Image(calls')
          /\ ~last'.result =>
                \A p \in Files(fs') \ Files(fs) : fs'[p] # Image(calls')
      ]_vars

\* the encoder failed half way through a conversion that had passed every
\* gate: the call returned false and left an incomplete file behind
C22_Witness ==
    /\ calls >= 1
    /\ ~last.result
    /\ last.steps = GateOrder
    /\ last.output_path \in Files(fs)
    /\ fs[last.output_path] = Partial(calls)

\* what the caller of convert_image gets back
Returned(call) == call.result

\* what happened in the call: how far it went, whether it succeeded, and the
\* path it wrote on success
Outcome(call) ==
    <<call.steps, call.result, IF call.result THEN call.output_path ELSE NoPath>>

\* C23: the value convert returns carries the output path on success and the
\* kind of error on failure: calls that ended differently (input not found,
\* unsupported input format, unsupported output format, decode error, encode
\* error, or success with some output path) return different values.
C23_ResultTellsOutcome ==
    [][ (Called /\ calls >= 1 /\ Returned(last') = Returned(last)) =>
            Outcome(last') = Outcome(last) ]_vars

---------------------------------------------------------------------------
(* Further claims about the application, checked under Spec *)

NoDuplicates(list) ==
    \A i, j \in 1 .. Len(list) : list[i] = list[j] => i = j

\* s is t with some elements left out, the others in the order of t
RECURSIVE IsSubsequence(_, _)
IsSubsequence(s, t) ==
    IF s = <<>> THEN TRUE
    ELSE IF t = <<>> THEN FALSE
    ELSE IF Head(s) = Head(t) THEN IsSubsequence(Tail(s), Tail(t))
    ELSE IsSubsequence(s, Tail(t))

\* C26: after any sequence of add_files, remove_file and clear_files the
\* file list holds no path twice; add_files appends a path only if it is an
\* existing file, is classified as an image and is not in the list yet, and
\* the list keeps the order in which the paths were first added.
C26_ListChanges ==
    [][ file_list' # file_list =>
          IF Len(file_list') > Len(file_list)
          THEN /\ IsPrefix(file_list, file_list')
               /\ \A k \in (Len(file_list) + 1) .. Len(file_list') :
                     /\ exists(fs, file_list'[k])
                     /\ lower(file_list'[k].suffix) \in IMAGE_EXTENSIONS
                     /\ ~InList(file_list, file_list'[k])
          ELSE IsSubsequence(file_list', file_list)
      ]_vars

C26_FileList == []NoDuplicates(file_list) /\ C26_ListChanges

\* the list was cleared and d.jpg and a.png were added, in that order; a
\* further add_files of files already listed, missing or not images left it
\* as it was
C26_Witness ==
    /\ file_list = <<in_d_jpg, in_a_png>>
    /\ actions = 3
    /\ dialog[1] \in {"showinfo", "showwarning"}
    /\ dialog[2] \in {"Duplicate Files", "Invalid Files", "No Files"}

IsProgressPut(e) == IsPut(e) /\ e.msg[1] = "progress"

\* the progress values put for the current batch, in order
ProgressValues ==
    LET puts == SelectSeq(log, IsProgressPut)
    IN  [k \in 1 .. Len(puts) |-> puts[k].msg[2]]

\* fractions <<numerator, denominator>> with positive denominators
FracLeq(a, b) == a[1] * b[2] <= b[1] * a[2]

\* C28: every progress value the worker puts lies in [0, 1], the values of a
\* batch are non-decreasing in the order they are put, the first is 0 and
\* the last before the terminal message is 1, whatever files are added or
\* removed meanwhile.
C28_ProgressValues ==
    LET values == ProgressValues
        n      == Len(values)
    IN  /\ \A k \in 1 .. n : FracLeq(Zero, values[k]) /\ FracLeq(values[k], One)
        /\ \A k \in 1 .. n - 1 : FracLeq(values[k], values[k + 1])
        /\ n >= 1 => values[1] = Zero
        /\ (TerminalSent /\ Sent[Len(Sent)][1] = "complete") =>
              n >= 1 /\ values[n] = One

---------------------------------------------------------------------------
(* Further claims about the image operations, checked under SpecImage *)

\* C27: for every source size and target box with positive components both
\* dimensions computed by _resize_image are at least 1, so no resize request
\* fails or yields an empty image because a dimension was truncated to 0.
C27_PositiveDimensions ==
    Resized => /\ img.new[1] >= 1
               /\ img.new[2] >= 1

---------------------------------------------------------------------------
(* Claims about the inputs, checked under SpecInputs *)

SettingsRead == img.op = "settings"
Classified   == img.op = "classify"

MaxDimension == 65535

\* C21: whenever resize is enabled, both components of the resize target
\* that reaches the pipeline lie in [1, 65535], for every text the user can
\* enter in the width and height fields.
C21_TargetInRange ==
    (SettingsRead /\ img.resize_option) =>
        /\ img.resize_dimensions # Absent
        /\ img.resize_dimensions[1] \in 1 .. MaxDimension
        /\ img.resize_dimensions[2] \in 1 .. MaxDimension

\* the value the text stands for: none when it is blank or not an integer
TextValue(text) == IF strip(text) = "" THEN <<>> ELSE int(text)

\* C29: the quality the worker passes to the pipeline is absent exactly when
\* custom quality is off, and otherwise an integer in [1, 100]: an integer
\* text is clamped to the range, an empty or non-numeric text gives 95; the
\* quality the JPEG or WEBP encoder receives is always in [1, 100].
C29_QualityInRange ==
    SettingsRead =>
        /\ (img.quality = Absent) <=> ~img.quality_option
        /\ img.quality_option =>
              LET n == TextValue(img.quality_text)
              IN  /\ img.quality[1] \in 1 .. 100
                  /\ n = <<>> => img.quality = <<95>>
                  /\ (n # <<>> /\ n[1] < 1) => img.quality = <<1>>
                  /\ (n # <<>> /\ n[1] > 100) => img.quality = <<100>>
                  /\ (n # <<>> /\ n[1] \in 1 .. 100) => img.quality = n
        /\ img.encoder.format \in {"JPEG", "WEBP"} =>
              /\ img.encoder.quality # Absent
              /\ img.encoder.quality[1] \in 1 .. 100

\* the text 150 was read with custom quality on, and the JPEG encoder got 100
C29_Witness ==
    /\ SettingsRead
    /\ img.quality_option
    /\ img.quality_text = "150"
    /\ img.quality = <<100>>
    /\ img.encoder.format = "JPEG"
    /\ img.encoder.quality = <<100>>

\* C24: is_image_file(path) is true exactly when the pipeline's
\* supported-input check accepts the lower-cased extension of the path, and
\* the MIME type looked up never changes the answer.
C24_ClassificationAgrees ==
    Classified =>
        /\ img.is_image = img.supported
        /\ img.is_image_here = img.supported
        /\ img.supported = (lower(img.path.suffix) \in SUPPORTED_INPUT_FORMATS)

\* a .ppm file whose MIME type is not in IMAGE_MIME_TYPES was classified as
\* an image
C24_Witness ==
    /\ Classified
    /\ img.path.suffix = ".PPM"
    /\ img.mime_type = "image/x-portable-pixmap"
    /\ img.is_image
    /\ img.supported

---------------------------------------------------------------------------
(* Claims about the conversion history, checked under SpecHistory *)

\* the last n elements of a sequence
LastOf(s, n) == IF Len(s) <= n THEN s ELSE SubSeq(s, Len(s) - n + 1, Len(s))

HoldsMostRecent ==
    /\ Len(history) <= 100
    /\ history = LastOf(added, 100)

CountsAddUp ==
    /\ {"total_conversions", "successful_conversions",
        "failed_conversions"} \subseteq stats.keys
    /\ stats.total_conversions = Len(history)
    /\ stats.successful_conversions + stats.failed_conversions
          = stats.total_conversions

\* C30 as stated: after any sequence of add_conversion and clear_history
\* calls the history holds at most 100 entries, the most recently added, in
\* insertion order, and get_statistics reports successful plus failed equal
\* to the total number of entries held.
C30_Stated ==
    /\ HoldsMostRecent
    /\ stats.returned = "dict" => CountsAddUp

\* C30, amended: the same, where get_statistics reports the counts only for
\* a history that holds an entry, and returns an empty dict for an empty one.
C30_Amended ==
    /\ HoldsMostRecent
    /\ (stats.returned = "dict" /\ history # <<>>) => CountsAddUp
    /\ (stats.returned = "dict" /\ history = <<>>) => stats.keys = {}

\* more than 100 entries were added, one of them a failure that is still
\* held, and get_statistics was called
C30_Witness ==
    /\ Len(added) > 100
    /\ Len(history) = 100
    /\ stats.returned = "dict"
    /\ stats.failed_conversions = 1
    /\ stats.successful_conversions = 99

====
